---------------------------- MODULE Spec2Model ----------------------------
(***************************************************************************)
(* A model of pico-build-rs: the byte scanners (crate `bytes`), the header *)
(* recognizer, the section table, delimiter scanner and slicer, the tab    *)
(* splitter, the cartridge builder and the cartridge serializer            *)
(* (crate `pico-8-cart-model`), and the tab compiler of the library crate. *)
(*                                                                         *)
(* Bytes are natural numbers 0..255, byte buffers are sequences of bytes.  *)
(* Rust's Option<T> is a sequence of length at most one: None is << >>,    *)
(* Some(x) is <<x>>.  Offsets are 0-based as in the source; SubSeq turns   *)
(* them into TLA+'s 1-based positions.  A panic of the source is a result  *)
(* of its own ("panic"), never an error value.                             *)
(***************************************************************************)
EXTENDS Integers, Sequences, FiniteSets, TLC

VARIABLES
    \* the byte scanners, driven one `next` at a time
    buf,          \* the buffer handed to NewlineIter::new / TabIter::new
    iter,         \* the iterator's field .0 : Option<&[u8]>
    yielded,      \* the items returned by `next` so far
    ipc,          \* "run" | "done" (next returned None) | "panic"
    \* the 16-slot tab array builders, called on their own
    lua_section,  \* section_data given to get_code_tabs_from_lua_section
    tab_list,     \* the tabs offered to compile_tabs
    tabs_call,    \* the two calls' results
    tpc,          \* "start" | "split" | "compiled"
    \* the cartridge pipeline
    cart_src,     \* the source bytes given to CartData::from_cart_source
    logging,      \* whether a tracing subscriber enables the debug level
    gen,          \* bookkeeping of how cart_src was put together
    split_out,    \* Option of the result of header::split_from(cart_src)
    pc,           \* "input" | "parsed" | "error" | "panic" | "serialized" | ...
    cart,         \* Option<CartData>: the cartridge in hand
    first_cart,   \* Option<CartData>: the cartridge as from_cart_source built it
    out,          \* the bytes of into_cart_source(cart)
    reparsed,     \* the result of from_cart_source(out)
    out2,         \* the bytes of into_cart_source of the re-parsed cartridge
    \* the version accessor, called on a header
    header_in,    \* the bytes of the Header
    version_out,  \* Option of the result of Header::get_version
    parse_out,    \* Option of the result of Version::parse
    vpc,          \* "start" | "got" | "parsed" | "panic"
    \* the delimiter scanner and the slicer, called on their own
    slice_src,    \* the bytes given to get_section_delimiters and get_sections
    slice_offset, \* line_number_offset : Option<usize>
    delims_out,   \* Option of the delimiters, in the order they are yielded
    sections_out, \* Option of the sections, in the order they are yielded
    \* the Fifo
    fifo,         \* the Fifo: [inner, cursor]
    fifo_init,    \* the elements the Fifo was built from
    fifo_written, \* the values given to overwrite so far, oldest first
    fifo_iter,    \* Option of the elements of the latest iter()
    \* the line classifier, called on one line
    line_in,      \* the line given to get_line_type
    line_type_out,\* Option of the result of get_line_type(line_in)
    \* the Fifo's cursor, with overwrite and reset_cursor on any Fifo
    fifo_ret,     \* Option of the index returned by the latest overwrite
    fifo_pc,      \* "run" | "abort" (an out-of-bounds access was caught)
    \* the cartridge compilers, called on their own
    project_file, \* the FileData of the cartridge: [loaded, data]
    lua_files,    \* the FileData of the source files, in directory order
    compile_out,  \* Option of each compiler's result: [compile, merge, build]
    \* the command-line program: its main loop, its actions and the cartridge file
    disk,         \* Option of the bytes of the file at cart_path (None: no such file)
    disk0,        \* disk when the action that started the current chain was received
    running_state, \* "Running" | "Done"
    current_action, \* Option<Action>: [kind, cartridge_data]
    invoked,      \* the kinds of the actions invoked in the current chain, in order
    log_panel_store, \* the Fifo of log lines
    received,     \* the number of actions received so far
    lpc           \* "top" | "recv" | "chain" | "exit" | "panic"

scanVars == <<buf, iter, yielded, ipc>>
tabVars  == <<lua_section, tab_list, tabs_call, tpc>>
cartVars == <<cart_src, logging, gen, split_out, pc, cart, first_cart, out, reparsed, out2>>
verVars  == <<header_in, version_out, parse_out, vpc>>
sliceVars == <<slice_src, slice_offset, delims_out, sections_out>>
fifoVars == <<fifo, fifo_init, fifo_written, fifo_iter>>
classVars == <<line_in, line_type_out>>
cursorVars == <<fifo_ret, fifo_pc>>
compVars == <<project_file, lua_files, compile_out>>
cliVars == <<disk, disk0, running_state, current_action, invoked, log_panel_store, received, lpc>>
vars     == <<buf, iter, yielded, ipc, lua_section, tab_list, tabs_call, tpc,
              cart_src, logging, gen, split_out, pc, cart, first_cart, out, reparsed, out2,
              header_in, version_out, parse_out, vpc,
              slice_src, slice_offset, delims_out, sections_out,
              fifo, fifo_init, fifo_written, fifo_iter,
              line_in, line_type_out,
              fifo_ret, fifo_pc,
              project_file, lua_files, compile_out,
              disk, disk0, running_state, current_action, invoked, log_panel_store, received, lpc>>

----------------------------------------------------------------------------
(* Option and slice primitives of the Rust core library.                   *)

None == << >>
Some(x) == <<x>>
IsSome(o) == Len(o) = 1
IsNone(o) == Len(o) = 0

\* <[u8]>::split_at(mid) for mid <= len (it panics otherwise; callers guard)
split_at(src, mid) == <<SubSeq(src, 1, mid), SubSeq(src, mid + 1, Len(src))>>

\* <[u8]>::split_at_checked(mid)
split_at_checked(src, mid) ==
    IF mid <= Len(src) THEN Some(split_at(src, mid)) ELSE None

\* <[u8]>::get(start..) : None when start > len
get_from(src, start) ==
    IF start <= Len(src) THEN Some(SubSeq(src, start + 1, Len(src))) ELSE None

\* <[u8]>::get(start..end) : None when start > end or end > len
get_range(src, start, end) ==
    IF start <= end /\ end <= Len(src) THEN Some(SubSeq(src, start + 1, end)) ELSE None

\* <[u8]>::starts_with(needle)
starts_with(src, needle) ==
    /\ Len(needle) <= Len(src)
    /\ SubSeq(src, 1, Len(needle)) = needle

RECURSIVE Concat(_)
\* the concatenation of a sequence of byte buffers (Iterator::chain / flat_map)
Concat(ss) == IF ss = << >> THEN << >> ELSE Head(ss) \o Concat(Tail(ss))

----------------------------------------------------------------------------
(* Byte values.                                                            *)

\* b'\n'
NL == 10

\* b"-->8"
TAB_SEQUENCE == <<45, 45, 62, 56>>

----------------------------------------------------------------------------
(* crate bytes: find a byte, split off a line, the two scanners.           *)

RECURSIVE find_from(_, _, _)
\* the while loop of find_index_of_element_const, from iter_index on
find_from(src, byte, iter_index) ==
    IF iter_index < Len(src)
    THEN IF src[iter_index + 1] = byte
         THEN Some(iter_index)
         ELSE find_from(src, byte, iter_index + 1)
    ELSE None

find_index_of_element_const(src, byte) == find_from(src, byte, 0)

\* Option<(line including its newline, remainder)>
splitln_const(src) ==
    LET found == find_index_of_element_const(src, NL)
    IN  IF IsNone(found)
        THEN None
        ELSE LET split_index == found[1] + 1
             IN  split_at_checked(src, split_index)

\* as NewlineIter_next_const, but the unterminated rest is returned even
\* when it is empty
NewlineIter_next_const_empty_last(self0) ==
    IF IsNone(self0)
    THEN [ret |-> None, self0 |-> None]
    ELSE LET src == self0[1]
             sp  == splitln_const(src)
         IN  IF IsNone(sp)
             THEN [ret |-> Some(src), self0 |-> None]
             ELSE [ret |-> Some(sp[1][1]), self0 |-> Some(sp[1][2])]

\* NewlineIter::next_const on field value `self0`: the item returned and
\* the new field value
NewlineIter_next_const(self0) ==
    IF IsNone(self0)
    THEN [ret |-> None, self0 |-> None]
    ELSE LET src == self0[1]
             sp  == splitln_const(src)
         IN  IF IsNone(sp)
             THEN [ret |-> IF src = << >> THEN None ELSE Some(src), self0 |-> None]
             ELSE [ret |-> Some(sp[1][1]), self0 |-> Some(sp[1][2])]

RECURSIVE NewlineIter_collect(_)
\* NewlineIter driven to completion: the sequence of all lines
NewlineIter_collect(self0) ==
    LET r == NewlineIter_next_const(self0)
    IN  IF IsNone(r.ret) THEN << >> ELSE <<r.ret[1]>> \o NewlineIter_collect(r.self0)

\* NewlineIter::new(src) collected
lines_of(src) == NewlineIter_collect(Some(src))

RECURSIVE find_window(_, _, _)
\* src.windows(n).enumerate().find_map(window == seq), from index idx on
find_window(src, seq, idx) ==
    IF idx + Len(seq) > Len(src)
    THEN None
    ELSE IF SubSeq(src, idx + 1, idx + Len(seq)) = seq
         THEN Some(idx)
         ELSE find_window(src, seq, idx + 1)

\* as TabIter_next, but only the 4 separator bytes are skipped
TabIter_next_skip_separator_only(self0) ==
    IF IsNone(self0)
    THEN [ret |-> None, self0 |-> None, panic |-> FALSE]
    ELSE LET src == self0[1]
             found == find_window(src, TAB_SEQUENCE, 0)
         IN  IF IsNone(found)
             THEN [ret |-> Some(src), self0 |-> None, panic |-> FALSE]
             ELSE LET sp == split_at(src, found[1])
                  IN  [ret |-> Some(sp[1]),
                       self0 |-> Some(split_at(sp[2], Len(TAB_SEQUENCE))[2]),
                       panic |-> FALSE]

\* TabIter::next on field value `self0`.  The second split_at takes the
\* separator and one more byte; it panics when fewer than 5 bytes are left.
TabIter_next(self0) ==
    IF IsNone(self0)
    THEN [ret |-> None, self0 |-> None, panic |-> FALSE]
    ELSE LET src == self0[1]
             found == find_window(src, TAB_SEQUENCE, 0)
         IN  IF IsNone(found)
             THEN [ret |-> Some(src), self0 |-> None, panic |-> FALSE]
             ELSE LET sp == split_at(src, found[1])
                      remainder == sp[2]
                  IN  IF Len(remainder) < Len(TAB_SEQUENCE) + 1
                      THEN [ret |-> None, self0 |-> self0, panic |-> TRUE]
                      ELSE [ret |-> Some(sp[1]),
                            self0 |-> Some(split_at(remainder, Len(TAB_SEQUENCE) + 1)[2]),
                            panic |-> FALSE]

----------------------------------------------------------------------------
(* Section types and the line classifier (cart-model/src/section.rs).      *)

\* the slice SECTION_TYPES, in its order
SECTION_TYPES == <<"Lua", "Gfx", "Gff", "Label", "Map", "Sfx", "Music">>

\* <&'static str as From<&SectionType>>::from, as bytes
type_string(type) ==
    CASE type = "Lua"   -> <<95, 95, 108, 117, 97, 95, 95>>             \* __lua__
      [] type = "Gfx"   -> <<95, 95, 103, 102, 120, 95, 95>>            \* __gfx__
      [] type = "Gff"   -> <<95, 95, 103, 102, 102, 95, 95>>            \* __gff__
      [] type = "Label" -> <<95, 95, 108, 97, 98, 101, 108, 95, 95>>    \* __label__
      [] type = "Map"   -> <<95, 95, 109, 97, 112, 95, 95>>             \* __map__
      [] type = "Sfx"   -> <<95, 95, 115, 102, 120, 95, 95>>            \* __sfx__
      [] type = "Music" -> <<95, 95, 109, 117, 115, 105, 99, 95, 95>>   \* __music__

RECURSIVE find_type(_, _)
\* SECTION_TYPES.iter().find(starts_with), from position i on
find_type(line_src, i) ==
    IF i > Len(SECTION_TYPES)
    THEN None
    ELSE IF starts_with(line_src, type_string(SECTION_TYPES[i]))
         THEN Some(SECTION_TYPES[i])
         ELSE find_type(line_src, i + 1)

\* get_line_type with the find started at the second entry of SECTION_TYPES
get_line_type_from_second(line_src) == find_type(line_src, 2)

\* get_line_type(line_src): Option<&SectionType>
get_line_type(line_src) == find_type(line_src, 1)

----------------------------------------------------------------------------
(* The delimiter scanner and the slicer (cart-model/src/lib.rs).           *)

RECURSIVE delimiters_from(_, _, _, _)
\* the filter_map closure over NewlineIter(..).enumerate(), from the line of
\* 0-based index line_number on, with the captured byte_offset
delimiters_from(lines, line_number, line_number_offset, byte_offset) ==
    IF line_number >= Len(lines)
    THEN << >>
    ELSE LET line == lines[line_number + 1]
             line_number_with_offset ==
                 line_number
                   + ((IF IsSome(line_number_offset) THEN line_number_offset[1] ELSE 0) + 1)
             type == get_line_type(line)
             rest == delimiters_from(lines, line_number + 1, line_number_offset,
                                     byte_offset + Len(line))
         IN  IF IsSome(type)
             THEN <<[type |-> type[1],
                     line_number |-> line_number_with_offset,
                     byte_offset |-> byte_offset]>> \o rest
             ELSE rest

\* a variant of get_section_delimiters that counts the lines from 1 whatever
\* the line_number_offset
get_section_delimiters_no_offset(src, line_number_offset) ==
    delimiters_from(lines_of(src), 0, None, 0)

\* the delimiters in the order the iterator yields them
get_section_delimiters(src, line_number_offset) ==
    delimiters_from(lines_of(src), 0, line_number_offset, 0)

RECURSIVE insert_sorted(_, _)
\* d put after every element whose line_number is not greater (stable)
insert_sorted(sorted, d) ==
    IF sorted = << >> THEN <<d>>
    ELSE IF Head(sorted).line_number <= d.line_number
         THEN <<Head(sorted)>> \o insert_sorted(Tail(sorted), d)
         ELSE <<d>> \o sorted

RECURSIVE sort_delimiters(_)
\* Vec::sort under Ord for SectionDelimiter: stable, by line_number alone
sort_delimiters(ds) ==
    IF ds = << >> THEN << >>
    ELSE insert_sorted(sort_delimiters(SubSeq(ds, 1, Len(ds) - 1)), ds[Len(ds)])

\* Iterator::rev
rev(s) == [i \in 1..Len(s) |-> s[Len(s) + 1 - i]]

RECURSIVE sections_from(_, _, _, _)
\* the filter_map closure of get_sections over the reversed, enumerated
\* delimiters, from index idx on, with the captured next_section_offset.
\* The `?` leaves the closure before next_section_offset is assigned.
sections_from(src, delimiters, idx, next_section_offset) ==
    IF idx >= Len(delimiters)
    THEN << >>
    ELSE LET d == delimiters[idx + 1]
             offset_without_type_marker == d.byte_offset + Len(type_string(d.type)) + 1
             section_src ==
                 IF idx = 0
                 THEN get_from(src, offset_without_type_marker)
                 ELSE get_range(src, offset_without_type_marker, next_section_offset)
         IN  IF IsNone(section_src)
             THEN sections_from(src, delimiters, idx + 1, next_section_offset)
             ELSE <<[type |-> d.type,
                     line_number |-> d.line_number,
                     section_data |-> section_src[1]]>>
                  \o sections_from(src, delimiters, idx + 1, d.byte_offset)

\* a variant of get_sections that puts the sections back in document order
get_sections_forward(src, delimiters) ==
    rev(sections_from(src, rev(sort_delimiters(delimiters)), 0, 0))

\* the sections in the order the returned iterator yields them
get_sections(src, delimiters) ==
    sections_from(src, rev(sort_delimiters(delimiters)), 0, 0)

----------------------------------------------------------------------------
(* The tab splitter.                                                       *)

\* const P8_MAX_CODE_EDITOR_TAB_COUNT: usize
P8_MAX_CODE_EDITOR_TAB_COUNT == 16

\* <CodeTabs as Default>::default(): slot i of the source is position i + 1
default_code_tabs == [i \in 1..P8_MAX_CODE_EDITOR_TAB_COUNT |-> None]

RECURSIVE code_tabs_loop(_, _, _, _)
\* the for loop of get_code_tabs_from_lua_section over TabIter(..).enumerate();
\* `tabs[tab_index] = ..` panics when tab_index is not below the array length
code_tabs_loop(self0, tab_index, line_number, tabs) ==
    LET r == TabIter_next(self0)
    IN  IF r.panic
        THEN [panic |-> TRUE, tabs |-> tabs]
        ELSE IF IsNone(r.ret)
        THEN [panic |-> FALSE, tabs |-> tabs]
        ELSE LET tab_data == r.ret[1]
                 tab == [line_number |-> line_number, code_data |-> tab_data]
                 after_separator ==
                     IF tab_index # 0 THEN line_number + 1 ELSE line_number
                 lines_in_section == Len(lines_of(tab_data))
             IN  IF tab_index >= P8_MAX_CODE_EDITOR_TAB_COUNT
                 THEN [panic |-> TRUE, tabs |-> tabs]
                 ELSE code_tabs_loop(r.self0, tab_index + 1,
                                     after_separator + lines_in_section,
                                     [tabs EXCEPT ![tab_index + 1] = Some(tab)])

\* [panic, tabs]: the CodeTabs returned, unless the call panics
get_code_tabs_from_lua_section(line_number, section_data) ==
    code_tabs_loop(Some(section_data), 0, line_number + 1, default_code_tabs)

RECURSIVE compile_tabs_fold(_, _, _)
\* the fold of compile_tabs over tabs.into_iter().enumerate()
compile_tabs_fold(tabs_in, tab_index, tabs) ==
    IF tab_index >= Len(tabs_in)
    THEN [panic |-> FALSE, tabs |-> tabs]
    ELSE IF tab_index >= P8_MAX_CODE_EDITOR_TAB_COUNT
         THEN [panic |-> TRUE, tabs |-> tabs]
         ELSE compile_tabs_fold(tabs_in, tab_index + 1,
                                [tabs EXCEPT ![tab_index + 1] = Some(tabs_in[tab_index + 1])])

\* [panic, tabs]: the CodeTabs returned, unless the call panics
compile_tabs(tabs_in) == compile_tabs_fold(tabs_in, 0, default_code_tabs)

----------------------------------------------------------------------------
(* The header recognizer (header.rs).                                      *)

\* const CARTRIDGE_MARKER = b"pico-8 cartridge // http://www.pico-8.com\n"
CARTRIDGE_MARKER ==
    <<112, 105, 99, 111, 45, 56, 32, 99, 97, 114, 116, 114, 105, 100, 103, 101,
      32, 47, 47, 32, 104, 116, 116, 112, 58, 47, 47, 119, 119, 119, 46, 112,
      105, 99, 111, 45, 56, 46, 99, 111, 109, 10>>

\* the literal "version " of Version::parse
VERSION_PREFIX == <<118, 101, 114, 115, 105, 111, 110, 32>>

\* core::str::from_utf8(..).is_ok(), exact for buffers whose bytes are ASCII
\* or 0xFF (the bytes the inputs are made of): 0xFF occurs in no UTF-8 text
is_utf8(bytes) == \A i \in 1..Len(bytes) : bytes[i] < 128

\* the bytes char::is_whitespace accepts among ASCII
is_whitespace(b) == b \in {9, 10, 11, 12, 13, 32}

RECURSIVE trim_end(_)
\* str::trim_end
trim_end(str) ==
    IF str # << >> /\ is_whitespace(str[Len(str)])
    THEN trim_end(SubSeq(str, 1, Len(str) - 1))
    ELSE str

\* usize::MAX = 2^64 - 1 as decimal digits (the target's usize has 64 bits)
USIZE_MAX_DIGITS == <<1, 8, 4, 4, 6, 7, 4, 4, 0, 7, 3, 7, 0, 9, 5, 5, 1, 6, 1, 5>>

RECURSIVE strip_zeros(_)
\* a digit sequence without its leading zeros (the value's own digits)
strip_zeros(ds) ==
    IF Len(ds) > 1 /\ Head(ds) = 0 THEN strip_zeros(Tail(ds)) ELSE ds

RECURSIVE digits_le(_, _)
\* a <= b for digit sequences of the same length
digits_le(a, b) ==
    IF a = << >> THEN TRUE
    ELSE IF Head(a) # Head(b) THEN Head(a) < Head(b)
    ELSE digits_le(Tail(a), Tail(b))

\* <usize as FromStr>::from_str: an optional '+', then at least one digit, all
\* bytes digits, and a value of at most usize::MAX.  Some(the value's decimal
\* digits) for Ok, None for Err: the value itself may exceed what the checker's
\* integers hold.
parse_usize(str) ==
    LET digits == IF str # << >> /\ Head(str) = 43 THEN Tail(str) ELSE str
    IN  IF digits = << >> THEN None
        ELSE IF \E i \in 1..Len(digits) : digits[i] < 48 \/ digits[i] > 57 THEN None
        ELSE LET value == strip_zeros([i \in 1..Len(digits) |-> digits[i] - 48])
             IN  IF \/ Len(value) > Len(USIZE_MAX_DIGITS)
                    \/ Len(value) = Len(USIZE_MAX_DIGITS) /\ ~digits_le(value, USIZE_MAX_DIGITS)
                 THEN None
                 ELSE Some(value)

\* Version::parse on the version line: [panic, ret], ret = Some(digits of n)
\* for Ok(n) and None for Err.  split_at panics on a line shorter than the prefix, the
\* let-else panics on another prefix.
Version_parse(version) ==
    IF Len(version) < Len(VERSION_PREFIX)
    THEN [panic |-> TRUE, ret |-> None]
    ELSE LET sp == split_at(version, Len(VERSION_PREFIX))
         IN  IF sp[1] # VERSION_PREFIX
             THEN [panic |-> TRUE, ret |-> None]
             ELSE [panic |-> FALSE, ret |-> parse_usize(trim_end(sp[2]))]

\* Header::get_as_tuple: [panic, ret], ret = Option<(marker, version)>
Header_get_as_tuple(header) ==
    LET sp == split_at_checked(header, Len(CARTRIDGE_MARKER))
    IN  IF IsNone(sp) THEN [panic |-> FALSE, ret |-> None]
        ELSE IF sp[1][1] # CARTRIDGE_MARKER THEN [panic |-> TRUE, ret |-> None]
        ELSE [panic |-> FALSE, ret |-> Some(<<CARTRIDGE_MARKER, sp[1][2]>>)]

\* Header::get_version: [panic, ret], ret = Option<version line>
Header_get_version(header) ==
    LET t == Header_get_as_tuple(header)
    IN  [panic |-> t.panic,
         ret |-> IF IsSome(t.ret) THEN Some(t.ret[1][2]) ELSE None]

\* whether formatting the header with {:?} panics: <Header as Debug>::fmt
\* asks get_version, <Version as Debug>::fmt asks Version::parse
Header_fmt_panics(header) ==
    LET v == Header_get_version(header)
    IN  \/ v.panic
        \/ IsSome(v.ret) /\ Version_parse(v.ret[1]).panic

\* header::split_from: [panic, ret], ret = Option<(header, remainder)>.
\* `let CARTRIDGE_MARKER = .. else { panic!(..) }` matches the first line
\* against the constant.  tracing::debug!("{header:?}") formats the header
\* only when the debug level is enabled.
split_from(src, debug_enabled) ==
    LET first == NewlineIter_next_const(Some(src))
    IN  IF IsNone(first.ret) THEN [panic |-> FALSE, ret |-> None]
        ELSE IF first.ret[1] # CARTRIDGE_MARKER THEN [panic |-> TRUE, ret |-> None]
        ELSE LET second == NewlineIter_next_const(first.self0)
             IN  IF IsNone(second.ret) THEN [panic |-> FALSE, ret |-> None]
                 ELSE LET version == second.ret[1]
                          header_len == Len(CARTRIDGE_MARKER) + Len(version)
                          sp == split_at(src, header_len)
                      IN  IF ~is_utf8(version) THEN [panic |-> FALSE, ret |-> None]
                          ELSE IF debug_enabled /\ Header_fmt_panics(sp[1])
                               THEN [panic |-> TRUE, ret |-> None]
                               ELSE [panic |-> FALSE, ret |-> Some(sp)]

----------------------------------------------------------------------------
(* The cartridge builder, the parser and the serializer.                   *)

\* <CartDataBuilder as Default>::default()
default_builder ==
    [label |-> None, gfx |-> None, gff |-> None, map |-> None, sfx |-> None,
     music |-> None, code_tabs |-> default_code_tabs]

\* a variant of the closure that leaves a gfx slot alone once it is filled
fold_section_keep_gfx(acc, section) ==
    IF section.type = "Gfx" /\ IsSome(acc.gfx)
    THEN [panic |-> FALSE, builder |-> acc]
    ELSE
    LET asset == [line_number |-> section.line_number,
                  asset_data |-> section.section_data]
    IN  CASE section.type = "Lua" ->
               LET tabs == get_code_tabs_from_lua_section(section.line_number,
                                                          section.section_data)
               IN  [panic |-> tabs.panic,
                    builder |-> [acc EXCEPT !.code_tabs = tabs.tabs]]
          [] section.type = "Gfx" ->
               [panic |-> FALSE, builder |-> [acc EXCEPT !.gfx = Some(asset)]]
          [] section.type = "Gff" ->
               [panic |-> FALSE, builder |-> [acc EXCEPT !.gff = Some(asset)]]
          [] section.type = "Sfx" ->
               [panic |-> FALSE, builder |-> [acc EXCEPT !.sfx = Some(asset)]]
          [] section.type = "Map" ->
               [panic |-> FALSE, builder |-> [acc EXCEPT !.map = Some(asset)]]
          [] section.type = "Music" ->
               [panic |-> FALSE, builder |-> [acc EXCEPT !.music = Some(asset)]]
          [] section.type = "Label" ->
               [panic |-> FALSE,
                builder |-> [acc EXCEPT !.label =
                                Some([line_number |-> section.line_number,
                                      label_data |-> section.section_data])]]

\* the closure of the fold in FromIterator<Section> for CartDataBuilder:
\* [panic, builder]
fold_section(acc, section) ==
    LET asset == [line_number |-> section.line_number,
                  asset_data |-> section.section_data]
    IN  CASE section.type = "Lua" ->
               LET tabs == get_code_tabs_from_lua_section(section.line_number,
                                                          section.section_data)
               IN  [panic |-> tabs.panic,
                    builder |-> [acc EXCEPT !.code_tabs = tabs.tabs]]
          [] section.type = "Gfx" ->
               [panic |-> FALSE, builder |-> [acc EXCEPT !.gfx = Some(asset)]]
          [] section.type = "Gff" ->
               [panic |-> FALSE, builder |-> [acc EXCEPT !.gff = Some(asset)]]
          [] section.type = "Sfx" ->
               [panic |-> FALSE, builder |-> [acc EXCEPT !.sfx = Some(asset)]]
          [] section.type = "Map" ->
               [panic |-> FALSE, builder |-> [acc EXCEPT !.map = Some(asset)]]
          [] section.type = "Music" ->
               [panic |-> FALSE, builder |-> [acc EXCEPT !.music = Some(asset)]]
          [] section.type = "Label" ->
               [panic |-> FALSE,
                builder |-> [acc EXCEPT !.label =
                                Some([line_number |-> section.line_number,
                                      label_data |-> section.section_data])]]

RECURSIVE builder_fold(_, _, _)
\* Iterator::fold over the sections from position i on
builder_fold(sections, i, acc) ==
    IF i > Len(sections)
    THEN [panic |-> FALSE, builder |-> acc]
    ELSE LET step == fold_section(acc, sections[i])
         IN  IF step.panic THEN step ELSE builder_fold(sections, i + 1, step.builder)

\* CartDataBuilder::from_iter: [panic, builder]
CartDataBuilder_from_iter(sections) == builder_fold(sections, 1, default_builder)

\* CartDataBuilder::build_with: Option<CartData>, None when gfx is None
build_with(builder, header) ==
    IF IsNone(builder.gfx)
    THEN None
    ELSE Some([header |-> header,
               label |-> builder.label,
               gfx |-> builder.gfx[1],
               gff |-> builder.gff,
               map |-> builder.map,
               sfx |-> builder.sfx,
               music |-> builder.music,
               code_tabs |-> builder.code_tabs])

\* the end of from_cart_source: .build_with(header).ok_or_else(..) on the
\* folded builder, unless the fold panicked
build_result(folded, header) ==
    IF folded.panic THEN [status |-> "panic", cart |-> None]
    ELSE IF IsNone(build_with(folded.builder, header))
    THEN [status |-> "err", cart |-> None]
    ELSE [status |-> "ok", cart |-> build_with(folded.builder, header)]

\* the middle of from_cart_source: the sections of the remainder, with line
\* numbers counted from the header's two lines, folded into a builder
parse_sections(header, remainder) ==
    build_result(
        CartDataBuilder_from_iter(
            get_sections(remainder, get_section_delimiters(remainder, Some(2)))),
        header)

\* the start of from_cart_source on the result of header::split_from:
\* .ok_or_else(..)? returns the error when the header is not split off
parse_split(split) ==
    IF split.panic THEN [status |-> "panic", cart |-> None]
    ELSE IF IsNone(split.ret) THEN [status |-> "err", cart |-> None]
    ELSE parse_sections(split.ret[1][1], split.ret[1][2])

\* CartData::from_cart_source: [status, cart] with status "ok" (Ok(cart)),
\* "err" (an io::Error) or "panic"
from_cart_source(src, debug_enabled) == parse_split(split_from(src, debug_enabled))

\* set_code_data that fills the given slots and keeps the others
set_code_data_merge(self, code_tabs) ==
    [self EXCEPT !.code_tabs =
        [i \in 1..P8_MAX_CODE_EDITOR_TAB_COUNT |->
            IF IsSome(code_tabs[i]) THEN code_tabs[i] ELSE self.code_tabs[i]]]

\* CartData::set_code_data
set_code_data(self, code_tabs) == [self EXCEPT !.code_tabs = code_tabs]

\* SectionType::with_data: the marker, a newline, then the data
with_data(type, data) == type_string(type) \o <<NL>> \o data

\* a variant of the closure that puts no newline after the separator
tab_bytes_bare_separator(idx, elt) ==
    IF IsNone(elt) THEN << >>
    ELSE IF idx = 0 THEN elt[1].code_data
    ELSE TAB_SEQUENCE \o elt[1].code_data

\* the closure with a separator line kept for an absent slot after slot 0
tab_bytes_placeholder(idx, elt) ==
    IF IsNone(elt) THEN (IF idx = 0 THEN << >> ELSE TAB_SEQUENCE \o <<NL>>)
    ELSE IF idx = 0 THEN elt[1].code_data
    ELSE TAB_SEQUENCE \o <<NL>> \o elt[1].code_data

\* the closure of the flat_map in into_cart_source for slot idx (0-based)
tab_bytes(idx, elt) ==
    IF IsNone(elt) THEN << >>
    ELSE IF idx = 0 THEN elt[1].code_data
    ELSE TAB_SEQUENCE \o <<NL>> \o elt[1].code_data

\* Option<section>.map(with_data).unwrap_or_default()
optional_with_data(type, data) ==
    IF IsNone(data) THEN << >> ELSE with_data(type, data[1])

\* a variant of into_cart_source that prepends the Lua marker unconditionally
into_cart_source_always_lua(self) ==
    LET tabs_flat == Concat([i \in 1..P8_MAX_CODE_EDITOR_TAB_COUNT |->
                                tab_bytes(i - 1, self.code_tabs[i])])
        lua == with_data("Lua", tabs_flat)
        gfx == with_data("Gfx", self.gfx.asset_data)
        label == optional_with_data("Label",
                     IF IsSome(self.label) THEN Some(self.label[1].label_data) ELSE None)
        gff == optional_with_data("Gff",
                     IF IsSome(self.gff) THEN Some(self.gff[1].asset_data) ELSE None)
        map == optional_with_data("Map",
                     IF IsSome(self.map) THEN Some(self.map[1].asset_data) ELSE None)
        sfx == optional_with_data("Sfx",
                     IF IsSome(self.sfx) THEN Some(self.sfx[1].asset_data) ELSE None)
        music == optional_with_data("Music",
                     IF IsSome(self.music) THEN Some(self.music[1].asset_data) ELSE None)
    IN  self.header \o lua \o gfx \o label \o gff \o map \o sfx \o music

\* a variant of into_cart_source that chains the Gff section before the Label
into_cart_source_gff_first(self) ==
    LET tabs_flat == Concat([i \in 1..P8_MAX_CODE_EDITOR_TAB_COUNT |->
                                tab_bytes(i - 1, self.code_tabs[i])])
        lua == IF tabs_flat # << >> THEN with_data("Lua", tabs_flat) ELSE tabs_flat
        gfx == with_data("Gfx", self.gfx.asset_data)
        label == optional_with_data("Label",
                     IF IsSome(self.label) THEN Some(self.label[1].label_data) ELSE None)
        gff == optional_with_data("Gff",
                     IF IsSome(self.gff) THEN Some(self.gff[1].asset_data) ELSE None)
        map == optional_with_data("Map",
                     IF IsSome(self.map) THEN Some(self.map[1].asset_data) ELSE None)
        sfx == optional_with_data("Sfx",
                     IF IsSome(self.sfx) THEN Some(self.sfx[1].asset_data) ELSE None)
        music == optional_with_data("Music",
                     IF IsSome(self.music) THEN Some(self.music[1].asset_data) ELSE None)
    IN  self.header \o lua \o gfx \o gff \o label \o map \o sfx \o music

\* CartData::into_cart_source
into_cart_source(self) ==
    LET tabs_flat == Concat([i \in 1..P8_MAX_CODE_EDITOR_TAB_COUNT |->
                                tab_bytes(i - 1, self.code_tabs[i])])
        lua == IF tabs_flat # << >> THEN with_data("Lua", tabs_flat) ELSE tabs_flat
        gfx == with_data("Gfx", self.gfx.asset_data)
        label == optional_with_data("Label",
                     IF IsSome(self.label) THEN Some(self.label[1].label_data) ELSE None)
        gff == optional_with_data("Gff",
                     IF IsSome(self.gff) THEN Some(self.gff[1].asset_data) ELSE None)
        map == optional_with_data("Map",
                     IF IsSome(self.map) THEN Some(self.map[1].asset_data) ELSE None)
        sfx == optional_with_data("Sfx",
                     IF IsSome(self.sfx) THEN Some(self.sfx[1].asset_data) ELSE None)
        music == optional_with_data("Music",
                     IF IsSome(self.music) THEN Some(self.music[1].asset_data) ELSE None)
    IN  self.header \o lua \o gfx \o label \o gff \o map \o sfx \o music

----------------------------------------------------------------------------
(* The Fifo of the library crate (lib/src/lib.rs).                         *)

\* <Fifo as Default>::default: an empty box, the cursor at its default
Fifo_default == [inner |-> << >>, cursor |-> 0]

\* Fifo::from_iter: the elements boxed, the cursor at its default
Fifo_from_iter(values) == [inner |-> values, cursor |-> 0]

\* Fifo::incremented_cursor_value
incremented_cursor_value(self) ==
    IF self.cursor + 1 = Len(self.inner) THEN 0 ELSE self.cursor + 1

\* Fifo::overwrite on a Fifo of at least one element: [self0, ret]
Fifo_overwrite(self, value) ==
    [self0 |-> [inner |-> [self.inner EXCEPT ![self.cursor + 1] = value],
                cursor |-> incremented_cursor_value(self)],
     ret |-> self.cursor]

\* Fifo::reset_cursor
Fifo_reset_cursor(self) == [self EXCEPT !.cursor = 0]

\* Fifo::get_at_cursor_mut is inner.get_unchecked_mut(cursor): in bounds only
\* when the cursor is below the length
cursor_in_bounds(self) == self.cursor < Len(self.inner)

\* Fifo::overwrite on any Fifo, as the set of its outcomes [self0, ret, abort].
\* With the cursor in bounds it is Fifo_overwrite.  Otherwise the unchecked
\* access is undefined: a build with the library's precondition checks aborts,
\* another writes outside the box and goes on to move the cursor.
Fifo_overwrite_any(self, value) ==
    IF cursor_in_bounds(self)
    THEN {[self0 |-> Fifo_overwrite(self, value).self0,
           ret |-> Fifo_overwrite(self, value).ret,
           abort |-> FALSE]}
    ELSE {[self0 |-> self, ret |-> self.cursor, abort |-> TRUE],
          [self0 |-> [inner |-> self.inner, cursor |-> incremented_cursor_value(self)],
           ret |-> self.cursor,
           abort |-> FALSE]}

\* a variant of into_iter that chains the two halves in storage order
Fifo_into_iter_storage_order(self) ==
    split_at(self.inner, self.cursor)[1] \o split_at(self.inner, self.cursor)[2]

\* <&Fifo as IntoIterator>::into_iter, collected:
\* cursor_and_onwards.iter().chain(until_cursor)
Fifo_into_iter(self) ==
    split_at(self.inner, self.cursor)[2] \o split_at(self.inner, self.cursor)[1]

\* Fifo::iter
Fifo_iter(self) == Fifo_into_iter(self)

----------------------------------------------------------------------------
(* Source files and the cartridge compilers (lib/src/lib.rs and            *)
(* cart-builder/src/lib.rs).  A FileData is [loaded, name, data]: whether  *)
(* it is FileData::Loaded, the stem of its path, and its data when loaded. *)

\* b"--"
COMMENT_PREFIX == <<45, 45>>

\* FileData::collect_into and SourceFile::collect_into on loaded data: the
\* data as it is when it starts with "--", else after the line "-- {name}\n"
collect_into(file) ==
    IF starts_with(file.data, COMMENT_PREFIX)
    THEN file.data
    ELSE <<45, 45, 32>> \o file.name \o <<NL>> \o file.data

RECURSIVE source_files_map(_, _, _, _)
\* the map closure of source_files_to_tabs from file i on, with the running
\* line_number; unwrap_loaded_data_deref panics on an unloaded file
source_files_map(source_files, i, line_number, acc) ==
    IF i > Len(source_files)
    THEN [panic |-> FALSE, tabs |-> acc]
    ELSE IF ~source_files[i].loaded
    THEN [panic |-> TRUE, tabs |-> acc]
    ELSE source_files_map(source_files, i + 1,
             line_number + Len(lines_of(source_files[i].data)),
             Append(acc, [line_number |-> line_number,
                          code_data |-> collect_into(source_files[i])]))

\* source_files_to_tabs (lib/src/lib.rs), collected: [panic, tabs]
source_files_to_tabs(source_files) == source_files_map(source_files, 1, 0, << >>)

RECURSIVE get_tabs_map(_, _, _, _)
\* the map closure of CartBuilder::get_tabs: the line count is taken of the
\* collected bytes
get_tabs_map(files, i, line_number, acc) ==
    IF i > Len(files)
    THEN acc
    ELSE get_tabs_map(files, i + 1,
             line_number + Len(lines_of(collect_into(files[i]))),
             Append(acc, [line_number |-> line_number,
                          code_data |-> collect_into(files[i])]))

\* CartBuilder::get_tabs on the files found, collected
CartBuilder_get_tabs(files) == get_tabs_map(files, 1, 0, << >>)

\* `if code_tabs.iter().any(Option::is_some) { cart.set_code_data(code_tabs) }`
\* without the test: the tab array is always replaced
overwrite_code_always(self, code_tabs) == set_code_data(self, code_tabs)

\* `if code_tabs.iter().any(Option::is_some) { cart.set_code_data(code_tabs) }`
overwrite_code_if_any(self, code_tabs) ==
    IF \E i \in 1..P8_MAX_CODE_EDITOR_TAB_COUNT : IsSome(code_tabs[i])
    THEN set_code_data(self, code_tabs)
    ELSE self

\* the end of compile_cartridge, merge_tabs_with_src and CartBuilder::build:
\* `loaded` is the cartridge in hand (None: it could not be had), `folded`
\* the result of the fold into the 16-slot array
finish_compile(loaded, folded) ==
    IF folded.panic THEN [status |-> "panic", cart |-> None]
    ELSE IF IsNone(loaded) THEN [status |-> "err", cart |-> None]
    ELSE [status |-> "ok", cart |-> Some(overwrite_code_if_any(loaded[1], folded.tabs))]

\* the fold of compile_cartridge over the tabs of the source files
compile_fold(tabs) ==
    IF tabs.panic THEN [panic |-> TRUE, tabs |-> default_code_tabs]
    ELSE compile_tabs(tabs.tabs)

\* compile_cartridge(cart_file, source_files): [status, cart].
\* cart_file is [loaded, data]; unwrap_loaded_data panics when it is unloaded
compile_cartridge(cart_file, source_files) ==
    IF ~cart_file.loaded
    THEN [status |-> "panic", cart |-> None]
    ELSE finish_compile(Some(cart_file.data),
                        compile_fold(source_files_to_tabs(source_files)))

\* merge_tabs_with_src(path, tabs): `loaded` is the value of
\* CartData::from_file_or_default(path), None when it is an Err
merge_tabs_with_src(loaded, tabs) == finish_compile(loaded, compile_tabs(tabs))

\* CartBuilder::build(src_file): `files` is the value of file_builders(),
\* None when get_lua_files is an Err; `loaded` as for merge_tabs_with_src
CartBuilder_build(files, loaded) ==
    IF IsNone(files)
    THEN [status |-> "err", cart |-> None]
    ELSE finish_compile(loaded, compile_tabs(CartBuilder_get_tabs(files[1])))

----------------------------------------------------------------------------
(* Files on disk and the actions of the command-line program               *)
(* (lib/src/lib.rs, cli/src/main.rs, cli/src/log_panel.rs).  A file is     *)
(* Option<bytes>: None when no file is at the path.                        *)

\* FileData::new: FileData::Unloaded(path)
FileData_new == [loaded |-> FALSE, data |-> None]

\* FileData::load: [self0, file, ok].  An Unloaded FileData opens the file
\* with create(true), read(true), write(true), truncate(true), which leaves
\* an empty file at the path, and hands it to T::from_file.  `open_ok` tells
\* whether the open succeeds, `from_file` is the value of T::from_file on
\* the opened file (None: an Err).
FileData_load(self, file, open_ok, from_file) ==
    IF self.loaded
    THEN [self0 |-> self, file |-> file, ok |-> TRUE]
    ELSE IF ~open_ok
    THEN [self0 |-> self, file |-> file, ok |-> FALSE]
    ELSE IF IsNone(from_file)
    THEN [self0 |-> self, file |-> Some(<< >>), ok |-> FALSE]
    ELSE [self0 |-> [loaded |-> TRUE, data |-> from_file[1]],
          file |-> Some(<< >>),
          ok |-> TRUE]

\* FileData::into_loaded: load, then self
FileData_into_loaded(self, file, open_ok, from_file) ==
    FileData_load(self, file, open_ok, from_file)

\* FileData::into_loaded_or_default: [ret, file].  The FileData loaded, or
\* when the load fails a FileData holding `fallback` (None: an Err instead)
FileData_into_loaded_or_default(self, file, open_ok, from_file, fallback) ==
    IF FileData_into_loaded(self, file, open_ok, from_file).ok
    THEN [ret |-> Some(FileData_into_loaded(self, file, open_ok, from_file).self0),
          file |-> FileData_into_loaded(self, file, open_ok, from_file).file]
    ELSE [ret |-> IF IsSome(fallback)
                  THEN Some([loaded |-> TRUE, data |-> fallback[1]])
                  ELSE None,
          file |-> FileData_into_loaded(self, file, open_ok, from_file).file]

\* the write of Action::SaveCompiledCartridge: the file opened with
\* truncate(true), write(true) and no create, then write_all of the bytes, of which
\* `written` bytes reach the file
save_to_file(file, bytes, open_ok, written) ==
    IF IsNone(file) \/ ~open_ok
    THEN file
    ELSE Some(SubSeq(bytes, 1, written))

\* const LINE_COUNT: usize (log_panel.rs)
LINE_COUNT == 20

\* <LogPanelStore as Default>::default(): LINE_COUNT default lines, written 0
LogPanelStore_default == Fifo_from_iter([i \in 1..LINE_COUNT |-> 0])

\* LogPanelStore::clear: every line set to its default, then reset_cursor
LogPanelStore_clear(self) ==
    Fifo_reset_cursor([self EXCEPT !.inner = [i \in 1..Len(self.inner) |-> 0]])

\* LogPanelStore::update: the line of the event, written 1, overwrites
LogPanelStore_update(self) == Fifo_overwrite(self, 1).self0

----------------------------------------------------------------------------
(* Bounded inputs.                                                         *)

\* the longest buffer given to NewlineIter on its own
MaxLineBuf == 4
\* the most pieces a buffer given to TabIter on its own is made of
MaxScanToks == 5

\* all sequences over S of length at most n
SeqsUpTo(S, n) == UNION {[1..k -> S] : k \in 0..n}

\* bytes of the buffers given to NewlineIter: newline, 'a', 'b'
LineAlphabet == {NL, 97, 98}
LineBuffers == SeqsUpTo(LineAlphabet, MaxLineBuf)

\* pieces of the buffers given to TabIter: the separator, newline, 'a', '-'
ScanTokens == {TAB_SEQUENCE, <<NL>>, <<97>>, <<45>>}
TabBuffers == {Concat(ts) : ts \in SeqsUpTo(ScanTokens, MaxScanToks)}

\* the most separators of a Lua section given to the tab splitter on its own
MaxSeps == 17
\* the most tabs offered to compile_tabs on its own
MaxOffered == 17

RECURSIVE Repeat(_, _)
\* n copies of s, concatenated
Repeat(s, n) == IF n = 0 THEN << >> ELSE s \o Repeat(s, n - 1)

\* Lua sections of n + 1 tabs of the same content: "", "a\n" or "a"
LuaSections ==
    {c \o Repeat(TAB_SEQUENCE \o <<NL>> \o c, n) :
        c \in {<< >>, <<97, NL>>, <<97>>}, n \in 0..MaxSeps}

\* n tabs, told apart by their line numbers
TabLists ==
    {[i \in 1..n |-> [line_number |-> i, code_data |-> <<97, NL>>]] : n \in 0..MaxOffered}

\* the signature line and "version 43\n": a well-formed header
ValidHeader == CARTRIDGE_MARKER \o VERSION_PREFIX \o <<52, 51, NL>>

\* a marker line: the marker and a newline
marker_line(type) == type_string(type) \o <<NL>>

\* the most pieces appended to the header in the sources of SpecCart
MaxBodyToks == 3

\* pieces of a source body: the seven marker lines, a Gfx marker without
\* its newline, "a\n", "a", "-->8\n" and "-->8"
BodyTokens ==
    {marker_line(SECTION_TYPES[i]) : i \in 1..Len(SECTION_TYPES)}
      \cup {type_string("Gfx"), <<97, NL>>, <<97>>,
            TAB_SEQUENCE \o <<NL>>, TAB_SEQUENCE}

\* a CodeTabs array whose first slots are `slots` (Option<bytes> each)
make_tabs(slots) ==
    [i \in 1..P8_MAX_CODE_EDITOR_TAB_COUNT |->
        IF i <= Len(slots) /\ IsSome(slots[i])
        THEN Some([line_number |-> 0, code_data |-> slots[i][1]])
        ELSE None]

\* the arrays given to set_code_data: no tab, one tab, two tabs, a gap
\* before the only tab, a gap between two tabs, one tab of empty code, a tab
\* whose code is a marker line
NewCodeTabs ==
    {make_tabs(<< >>),
     make_tabs(<<Some(<<97, NL>>)>>),
     make_tabs(<<Some(<<97, NL>>), Some(<<98, NL>>)>>),
     make_tabs(<<None, Some(<<97, NL>>)>>),
     make_tabs(<<Some(<<97, NL>>), None, Some(<<98, NL>>)>>),
     make_tabs(<<Some(<< >>)>>),
     make_tabs(<<Some(marker_line("Gfx"))>>)}

\* the most pieces of the short sources of SpecHeader
MaxHeadToks == 3

\* pieces of short sources: the signature line, "x\n", "x", "version 43\n",
\* "v\n", "version x\n", a line of the byte 0xFF, the Gfx marker line
HeadTokens ==
    {CARTRIDGE_MARKER, <<120, NL>>, <<120>>, VERSION_PREFIX \o <<52, 51, NL>>,
     <<118, NL>>, VERSION_PREFIX \o <<120, NL>>, <<255, NL>>, marker_line("Gfx")}
HeadSources == {Concat(ts) : ts \in SeqsUpTo(HeadTokens, MaxHeadToks)}

\* the most tabs of a canonical source whose content is not "a\n"
MaxOddTabs == 1

\* tab contents of canonical sources other than "a\n": empty, and "b" without
\* a newline before the separator
OddTabContents == {<< >>, <<98>>}

\* gfx data of canonical sources: empty, "c\n", and "c" without its newline
CanonGfxData == {<< >>, <<99, NL>>, <<99>>}

----------------------------------------------------------------------------
(* The states in which a component is not in use.                          *)

IdleScan ==
    /\ buf = << >>
    /\ iter = None
    /\ yielded = << >>
    /\ ipc = "idle"

IdleTabs ==
    /\ lua_section = << >>
    /\ tab_list = << >>
    /\ tabs_call = [split |-> None, compiled |-> None]
    /\ tpc = "idle"

IdleCart ==
    /\ cart_src = << >>
    /\ logging = FALSE
    /\ gen = [kind |-> "idle"]
    /\ split_out = None
    /\ pc = "idle"
    /\ cart = None
    /\ first_cart = None
    /\ out = << >>
    /\ reparsed = None
    /\ out2 = << >>

IdleVersion ==
    /\ header_in = << >>
    /\ version_out = None
    /\ parse_out = None
    /\ vpc = "idle"

IdleSlicer ==
    /\ slice_src = << >>
    /\ slice_offset = None
    /\ delims_out = None
    /\ sections_out = None

IdleFifo ==
    /\ fifo = [inner |-> << >>, cursor |-> 0]
    /\ fifo_init = << >>
    /\ fifo_written = << >>
    /\ fifo_iter = None

IdleCli ==
    /\ disk = None
    /\ disk0 = None
    /\ running_state = "Running"
    /\ current_action = None
    /\ invoked = << >>
    /\ log_panel_store = [inner |-> << >>, cursor |-> 0]
    /\ received = 0
    /\ lpc = "idle"

IdleCompile ==
    /\ project_file = [loaded |-> FALSE, data |-> None]
    /\ lua_files = << >>
    /\ compile_out = [compile |-> None, merge |-> None, build |-> None]

IdleCursor ==
    /\ fifo_ret = None
    /\ fifo_pc = "idle"

IdleClass ==
    /\ line_in = << >>
    /\ line_type_out = None

----------------------------------------------------------------------------
(* The line scanner, driven to completion on every buffer.                 *)

InitLines ==
    /\ buf \in LineBuffers
    /\ iter = Some(buf)            \* NewlineIter::new
    /\ yielded = << >>
    /\ ipc = "run"
    /\ IdleTabs /\ IdleCart /\ IdleVersion /\ IdleSlicer /\ IdleFifo /\ IdleClass /\ IdleCursor /\ IdleCompile /\ IdleCli

\* one call of Iterator::next on the NewlineIter
NewlineNext ==
    /\ ipc = "run"
    /\ LET r == NewlineIter_next_const(iter)
       IN  /\ iter' = r.self0
           /\ IF IsSome(r.ret)
              THEN yielded' = Append(yielded, r.ret[1]) /\ ipc' = "run"
              ELSE yielded' = yielded /\ ipc' = "done"
    /\ UNCHANGED <<cliVars, compVars, cursorVars, classVars, verVars, sliceVars, fifoVars, buf, tabVars, cartVars>>

NextLines == NewlineNext

SpecLines == InitLines /\ [][NextLines]_vars

----------------------------------------------------------------------------
(* The tab scanner, driven to completion on every buffer.                  *)

InitTabScan ==
    /\ buf \in TabBuffers
    /\ iter = Some(buf)            \* TabIter::new
    /\ yielded = << >>
    /\ ipc = "run"
    /\ IdleTabs /\ IdleCart /\ IdleVersion /\ IdleSlicer /\ IdleFifo /\ IdleClass /\ IdleCursor /\ IdleCompile /\ IdleCli

\* one call of Iterator::next on the TabIter
TabNext ==
    /\ ipc = "run"
    /\ LET r == TabIter_next(iter)
       IN  /\ iter' = r.self0
           /\ IF r.panic
              THEN yielded' = yielded /\ ipc' = "panic"
              ELSE IF IsSome(r.ret)
                   THEN yielded' = Append(yielded, r.ret[1]) /\ ipc' = "run"
                   ELSE yielded' = yielded /\ ipc' = "done"
    /\ UNCHANGED <<cliVars, compVars, cursorVars, classVars, verVars, sliceVars, fifoVars, buf, tabVars, cartVars>>

NextTabScan == TabNext

SpecTabScan == InitTabScan /\ [][NextTabScan]_vars

----------------------------------------------------------------------------
(* The tab array builders called on their own.                             *)

InitTabCalls ==
    /\ lua_section \in LuaSections
    /\ tab_list \in TabLists
    /\ tabs_call = [split |-> None, compiled |-> None]
    /\ tpc = "start"
    /\ IdleScan /\ IdleCart /\ IdleVersion /\ IdleSlicer /\ IdleFifo /\ IdleClass /\ IdleCursor /\ IdleCompile /\ IdleCli

\* get_code_tabs_from_lua_section(2, lua_section)
CallGetCodeTabs ==
    /\ tpc = "start"
    /\ IsNone(tabs_call.split)
    /\ tabs_call' = [tabs_call EXCEPT
                        !.split = Some(get_code_tabs_from_lua_section(2, lua_section))]
    /\ UNCHANGED <<cliVars, compVars, cursorVars, classVars, verVars, sliceVars, fifoVars, lua_section, tab_list, tpc, scanVars, cartVars>>

\* compile_tabs(tab_list)
CallCompileTabs ==
    /\ tpc = "start"
    /\ IsNone(tabs_call.compiled)
    /\ tabs_call' = [tabs_call EXCEPT !.compiled = Some(compile_tabs(tab_list))]
    /\ UNCHANGED <<cliVars, compVars, cursorVars, classVars, verVars, sliceVars, fifoVars, lua_section, tab_list, tpc, scanVars, cartVars>>

NextTabCalls == CallGetCodeTabs \/ CallCompileTabs

SpecTabCalls == InitTabCalls /\ [][NextTabCalls]_vars

----------------------------------------------------------------------------
(* The cartridge pipeline: parse, replace the tabs, serialize, parse again,*)
(* serialize again.                                                        *)

\* header::split_from(cart_src), called on its own
SplitFrom ==
    /\ pc = "input"
    /\ IsNone(split_out)
    /\ split_out' = Some(split_from(cart_src, logging))
    /\ UNCHANGED <<cliVars, compVars, cursorVars, classVars, verVars, sliceVars, fifoVars, cart_src, logging, gen, pc, cart, first_cart, out, reparsed, out2,
                   scanVars, tabVars>>

\* CartData::from_cart_source(cart_src)
FromCartSource ==
    /\ pc = "input"
    /\ LET r == from_cart_source(cart_src, logging)
       IN  /\ pc' = CASE r.status = "ok" -> "parsed"
                      [] r.status = "err" -> "error"
                      [] r.status = "panic" -> "panic"
           /\ cart' = r.cart
           /\ first_cart' = r.cart
    /\ UNCHANGED <<cliVars, compVars, cursorVars, classVars, verVars, sliceVars, fifoVars, cart_src, logging, gen, split_out, out, reparsed, out2,
                   scanVars, tabVars>>

\* cart.set_code_data(code_tabs)
SetCodeData(code_tabs) ==
    /\ pc = "parsed"
    /\ cart' = Some(set_code_data(cart[1], code_tabs))
    /\ UNCHANGED <<cliVars, compVars, cursorVars, classVars, verVars, sliceVars, fifoVars, cart_src, logging, gen, split_out, pc, first_cart, out, reparsed,
                   out2, scanVars, tabVars>>

\* cart.into_cart_source()
IntoCartSource ==
    /\ pc = "parsed"
    /\ out' = into_cart_source(cart[1])
    /\ pc' = "serialized"
    /\ UNCHANGED <<cliVars, compVars, cursorVars, classVars, verVars, sliceVars, fifoVars, cart_src, logging, gen, split_out, cart, first_cart, reparsed, out2,
                   scanVars, tabVars>>

\* CartData::from_cart_source(out)
Reparse ==
    /\ pc = "serialized"
    /\ reparsed' = Some(from_cart_source(out, logging))
    /\ pc' = "reparsed"
    /\ UNCHANGED <<cliVars, compVars, cursorVars, classVars, verVars, sliceVars, fifoVars, cart_src, logging, gen, split_out, cart, first_cart, out, out2,
                   scanVars, tabVars>>

\* into_cart_source() of the re-parsed cartridge
Reserialize ==
    /\ pc = "reparsed"
    /\ reparsed[1].status = "ok"
    /\ out2' = into_cart_source(reparsed[1].cart[1])
    /\ pc' = "done"
    /\ UNCHANGED <<cliVars, compVars, cursorVars, classVars, verVars, sliceVars, fifoVars, cart_src, logging, gen, split_out, cart, first_cart, out, reparsed,
                   scanVars, tabVars>>

\* the caller appends a piece to the source before parsing it
AppendToken(t) ==
    /\ pc = "input"
    /\ gen.kind = "tokens"
    /\ gen.n < MaxBodyToks
    /\ cart_src' = cart_src \o t
    /\ gen' = [gen EXCEPT !.n = gen.n + 1]
    /\ UNCHANGED <<cliVars, compVars, cursorVars, classVars, verVars, sliceVars, fifoVars, logging, split_out, pc, cart, first_cart, out, reparsed, out2,
                   scanVars, tabVars>>

InitCart ==
    /\ cart_src = ValidHeader
    /\ logging \in BOOLEAN
    /\ gen = [kind |-> "tokens", n |-> 0]
    /\ split_out = None
    /\ pc = "input"
    /\ cart = None
    /\ first_cart = None
    /\ out = << >>
    /\ reparsed = None
    /\ out2 = << >>
    /\ IdleScan /\ IdleTabs /\ IdleVersion /\ IdleSlicer /\ IdleFifo /\ IdleClass /\ IdleCursor /\ IdleCompile /\ IdleCli

NextCart ==
    \/ \E t \in BodyTokens : AppendToken(t)
    \/ FromCartSource
    \/ \E t \in NewCodeTabs : SetCodeData(t)
    \/ IntoCartSource
    \/ Reparse
    \/ Reserialize

SpecCart == InitCart /\ [][NextCart]_vars

----------------------------------------------------------------------------
(* Short and malformed sources: the header recognizer and the parser.      *)

InitHeader ==
    /\ cart_src \in HeadSources
    /\ logging \in BOOLEAN
    /\ gen = [kind |-> "short"]
    /\ split_out = None
    /\ pc = "input"
    /\ cart = None
    /\ first_cart = None
    /\ out = << >>
    /\ reparsed = None
    /\ out2 = << >>
    /\ IdleScan /\ IdleTabs /\ IdleVersion /\ IdleSlicer /\ IdleFifo /\ IdleClass /\ IdleCursor /\ IdleCompile /\ IdleCli

NextHeader == SplitFrom \/ FromCartSource

SpecHeader == InitHeader /\ [][NextHeader]_vars

----------------------------------------------------------------------------
(* Canonical sources: the header, a Lua section of 1 to 16 tabs, and a Gfx *)
(* section that is the last one.                                           *)

\* the bytes of cart_src after the Lua marker line
canon_lua_data ==
    SubSeq(cart_src, Len(ValidHeader) + Len(marker_line("Lua")) + 1, Len(cart_src))

\* the editor adds a tab of content c, after a separator line unless it is
\* the first
CanonTab(c) ==
    /\ pc = "build"
    /\ gen.tabs < P8_MAX_CODE_EDITOR_TAB_COUNT
    /\ c # <<97, NL>> => gen.odd < MaxOddTabs
    /\ cart_src' = cart_src
                     \o (IF gen.tabs > 0 THEN TAB_SEQUENCE \o <<NL>> ELSE << >>) \o c
    /\ gen' = [gen EXCEPT !.tabs = gen.tabs + 1,
                          !.odd = IF c # <<97, NL>> THEN gen.odd + 1 ELSE gen.odd]
    /\ UNCHANGED <<cliVars, compVars, cursorVars, classVars, verVars, sliceVars, fifoVars, logging, split_out, pc, cart, first_cart, out, reparsed, out2,
                   scanVars, tabVars>>

\* the Gfx section closes the file; the Lua section before it is non-empty
\* and ends with a newline
CanonGfx(g) ==
    /\ pc = "build"
    /\ gen.tabs >= 1
    /\ canon_lua_data # << >>
    /\ cart_src[Len(cart_src)] = NL
    /\ cart_src' = cart_src \o marker_line("Gfx") \o g
    /\ pc' = "input"
    /\ UNCHANGED <<cliVars, compVars, cursorVars, classVars, verVars, sliceVars, fifoVars, logging, gen, split_out, cart, first_cart, out, reparsed, out2,
                   scanVars, tabVars>>

InitCanon ==
    /\ cart_src = ValidHeader \o marker_line("Lua")
    /\ logging \in BOOLEAN
    /\ gen = [kind |-> "canon", tabs |-> 0, odd |-> 0]
    /\ split_out = None
    /\ pc = "build"
    /\ cart = None
    /\ first_cart = None
    /\ out = << >>
    /\ reparsed = None
    /\ out2 = << >>
    /\ IdleScan /\ IdleTabs /\ IdleVersion /\ IdleSlicer /\ IdleFifo /\ IdleClass /\ IdleCursor /\ IdleCompile /\ IdleCli

NextCanon ==
    \/ \E c \in OddTabContents \cup {<<97, NL>>} : CanonTab(c)
    \/ \E g \in CanonGfxData : CanonGfx(g)
    \/ FromCartSource
    \/ IntoCartSource

SpecCanon == InitCanon /\ [][NextCanon]_vars

----------------------------------------------------------------------------
(* The version accessor, called on headers of every kind of version line.  *)

\* the most bytes between the prefix and the end of a short version line
MaxVerToken == 2

\* bytes of the token: '0', '3', '4', 'x', '+' and the space
VerBytes == {48, 51, 52, 120, 43, 32}

\* what a version line starts with: "version ", "v", "versionX"
VerPrefixes == {VERSION_PREFIX, <<118>>, <<118, 101, 114, 115, 105, 111, 110, 88>>}

\* the digits of usize::MAX and of usize::MAX + 1 as bytes
VerLongTokens ==
    {[i \in 1..Len(USIZE_MAX_DIGITS) |-> USIZE_MAX_DIGITS[i] + 48],
     [i \in 1..Len(USIZE_MAX_DIGITS) |->
         IF i = Len(USIZE_MAX_DIGITS) THEN 54 ELSE USIZE_MAX_DIGITS[i] + 48]}

\* version lines: a prefix, a token, and a newline or nothing
VersionLines ==
    {p \o t \o e : p \in VerPrefixes,
                   t \in SeqsUpTo(VerBytes, MaxVerToken) \cup VerLongTokens,
                   e \in {<<NL>>, << >>}}

InitVersion ==
    /\ header_in \in {CARTRIDGE_MARKER \o v : v \in VersionLines}
    /\ version_out = None
    /\ parse_out = None
    /\ vpc = "start"
    /\ IdleScan /\ IdleTabs /\ IdleCart /\ IdleSlicer /\ IdleFifo /\ IdleClass /\ IdleCursor /\ IdleCompile /\ IdleCli

\* header.get_version()
GetVersion ==
    /\ vpc = "start"
    /\ version_out' = Some(Header_get_version(header_in))
    /\ vpc' = IF Header_get_version(header_in).panic THEN "panic" ELSE "got"
    /\ UNCHANGED <<cliVars, compVars, cursorVars, classVars, header_in, parse_out, scanVars, tabVars, cartVars, sliceVars, fifoVars>>

\* version.parse() on the Version that get_version returned
ParseVersion ==
    /\ vpc = "got"
    /\ IsSome(version_out[1].ret)
    /\ parse_out' = Some(Version_parse(version_out[1].ret[1]))
    /\ vpc' = IF Version_parse(version_out[1].ret[1]).panic THEN "panic" ELSE "parsed"
    /\ UNCHANGED <<cliVars, compVars, cursorVars, classVars, header_in, version_out, scanVars, tabVars, cartVars, sliceVars, fifoVars>>

NextVersion == GetVersion \/ ParseVersion

SpecVersion == InitVersion /\ [][NextVersion]_vars

----------------------------------------------------------------------------
(* The delimiter scanner and the slicer, called on their own.              *)

\* the most pieces of a buffer given to the delimiter scanner and the slicer
MaxSliceToks == 3

\* pieces of these buffers: the seven marker lines, a Gfx marker line with a
\* byte after the marker, a Gfx marker without its newline, a Gfx marker
\* after a space, "a\n" and "a"
SliceTokens ==
    {marker_line(SECTION_TYPES[i]) : i \in 1..Len(SECTION_TYPES)}
      \cup {type_string("Gfx") \o <<120, NL>>, type_string("Gfx"),
            <<32>> \o marker_line("Gfx"), <<97, NL>>, <<97>>}
SliceSources == {Concat(ts) : ts \in SeqsUpTo(SliceTokens, MaxSliceToks)}

InitSlicer ==
    /\ slice_src \in SliceSources
    /\ slice_offset \in {None, Some(2)}
    /\ delims_out = None
    /\ sections_out = None
    /\ IdleScan /\ IdleTabs /\ IdleCart /\ IdleVersion /\ IdleFifo /\ IdleClass /\ IdleCursor /\ IdleCompile /\ IdleCli

\* get_section_delimiters(slice_src, slice_offset), collected
ScanDelimiters ==
    /\ IsNone(delims_out)
    /\ delims_out' = Some(get_section_delimiters(slice_src, slice_offset))
    /\ UNCHANGED <<cliVars, compVars, cursorVars, classVars, slice_src, slice_offset, sections_out,
                   scanVars, tabVars, cartVars, verVars, fifoVars>>

\* get_sections(slice_src, the delimiters), in the order the fold of
\* CartDataBuilder::from_iter takes the sections from the iterator
SliceSections ==
    /\ IsSome(delims_out)
    /\ IsNone(sections_out)
    /\ sections_out' = Some(get_sections(slice_src, delims_out[1]))
    /\ UNCHANGED <<cliVars, compVars, cursorVars, classVars, slice_src, slice_offset, delims_out,
                   scanVars, tabVars, cartVars, verVars, fifoVars>>

NextSlicer == ScanDelimiters \/ SliceSections

SpecSlicer == InitSlicer /\ [][NextSlicer]_vars

----------------------------------------------------------------------------
(* The Fifo, built from n >= 1 elements, overwritten and iterated.         *)

\* the most elements a Fifo is built from
MaxFifoLen == 3
\* the most overwrite calls
MaxWrites == 4

\* the values of the elements
FifoValues == {0, 1}

InitFifo ==
    /\ fifo_init \in SeqsUpTo(FifoValues, MaxFifoLen) \ {<< >>}
    /\ fifo = Fifo_from_iter(fifo_init)
    /\ fifo_written = << >>
    /\ fifo_iter = None
    /\ IdleScan /\ IdleTabs /\ IdleCart /\ IdleVersion /\ IdleSlicer /\ IdleClass /\ IdleCursor /\ IdleCompile /\ IdleCli

\* fifo.overwrite(value)
Overwrite(value) ==
    /\ Len(fifo_written) < MaxWrites
    /\ fifo' = Fifo_overwrite(fifo, value).self0
    /\ fifo_written' = Append(fifo_written, value)
    /\ fifo_iter' = None
    /\ UNCHANGED <<cliVars, compVars, cursorVars, classVars, fifo_init, scanVars, tabVars, cartVars, verVars, sliceVars>>

\* fifo.iter(), collected
Iter ==
    /\ IsNone(fifo_iter)
    /\ fifo_iter' = Some(Fifo_iter(fifo))
    /\ UNCHANGED <<cliVars, compVars, cursorVars, classVars, fifo, fifo_init, fifo_written, scanVars, tabVars, cartVars, verVars,
                   sliceVars>>

NextFifo ==
    \/ \E value \in FifoValues : Overwrite(value)
    \/ Iter

SpecFifo == InitFifo /\ [][NextFifo]_vars

----------------------------------------------------------------------------
(* The Fifo's cursor: any Fifo, overwritten and reset.                     *)

InitCursor ==
    /\ fifo_init \in SeqsUpTo(FifoValues, MaxFifoLen)
    /\ fifo \in {Fifo_default, Fifo_from_iter(fifo_init)}
    /\ Len(fifo.inner) = Len(fifo_init)
    /\ fifo_written = << >>
    /\ fifo_iter = None
    /\ fifo_ret = None
    /\ fifo_pc = "run"
    /\ IdleScan /\ IdleTabs /\ IdleCart /\ IdleVersion /\ IdleSlicer /\ IdleClass /\ IdleCompile /\ IdleCli

\* fifo.overwrite(value) on any Fifo
OverwriteAny(value) ==
    /\ fifo_pc = "run"
    /\ Len(fifo_written) < MaxWrites
    /\ \E o \in Fifo_overwrite_any(fifo, value) :
          /\ fifo' = o.self0
          /\ fifo_ret' = IF o.abort THEN fifo_ret ELSE Some(o.ret)
          /\ fifo_pc' = IF o.abort THEN "abort" ELSE "run"
    /\ fifo_written' = Append(fifo_written, value)
    /\ UNCHANGED <<cliVars, compVars, fifo_init, fifo_iter, scanVars, tabVars, cartVars, verVars, sliceVars,
                   classVars>>

\* fifo.reset_cursor()
ResetCursor ==
    /\ fifo_pc = "run"
    /\ fifo' = Fifo_reset_cursor(fifo)
    /\ UNCHANGED <<cliVars, compVars, fifo_init, fifo_written, fifo_iter, fifo_ret, fifo_pc, scanVars, tabVars,
                   cartVars, verVars, sliceVars, classVars>>

NextCursor ==
    \/ \E value \in FifoValues : OverwriteAny(value)
    \/ ResetCursor

SpecCursor == InitCursor /\ [][NextCursor]_vars

----------------------------------------------------------------------------
(* The line classifier, called on its own.                                 *)

\* the most bytes that follow a marker in a line given to the classifier
MaxLineTail == 1

\* the bytes that follow a marker: a newline, "x", "_"
TailBytes == {NL, 120, 95}

\* the markers, in the order of SECTION_TYPES
Markers == {type_string(SECTION_TYPES[t]) : t \in 1..Len(SECTION_TYPES)}

\* every prefix of a marker, every marker followed by a short tail, by
\* another marker, or preceded by a space
ClassifyLines ==
    UNION {{SubSeq(m, 1, n) : n \in 0..Len(m)} : m \in Markers}
        \cup {m \o tail : m \in Markers, tail \in SeqsUpTo(TailBytes, MaxLineTail)}
        \cup {m \o m2 : m \in Markers, m2 \in Markers}
        \cup {<<32>> \o m : m \in Markers}

InitClassify ==
    /\ line_in \in ClassifyLines
    /\ line_type_out = None
    /\ IdleScan /\ IdleTabs /\ IdleCart /\ IdleVersion /\ IdleSlicer /\ IdleFifo /\ IdleCursor /\ IdleCompile /\ IdleCli

\* get_line_type(line_in)
Classify ==
    /\ IsNone(line_type_out)
    /\ line_type_out' = Some(get_line_type(line_in))
    /\ UNCHANGED <<cliVars, compVars, cursorVars, line_in, scanVars, tabVars, cartVars, verVars, sliceVars, fifoVars>>

NextClassify == Classify

SpecClassify == InitClassify /\ [][NextClassify]_vars

----------------------------------------------------------------------------
(* The command-line program: the main loop of main() and Action::invoke.   *)

\* the most actions received from the channel in one run
MaxReceived == 3
\* the most source files found in the source directory
MaxSources == 1

\* loaded source files: "x\n" in a.lua, "--y\n" in b.lua
LoadedSources ==
    {[loaded |-> TRUE, name |-> <<97>>, data |-> <<120, NL>>],
     [loaded |-> TRUE, name |-> <<98>>, data |-> <<45, 45, 121, NL>>]}

\* the sources of the cartridges a load can come back with: a Gfx section
\* only; a Lua section of one tab, a Gfx and a Gff section
CliCartSources ==
    {ValidHeader \o marker_line("Gfx"),
     ValidHeader \o marker_line("Lua") \o <<97, NL>> \o marker_line("Gfx") \o <<98, NL>>
         \o marker_line("Gff")}

CliCarts == {from_cart_source(src, FALSE).cart[1] : src \in CliCartSources}

\* what is at cart_path when the program starts: nothing, an empty file, a
\* file that is no cartridge, a cartridge
CliFiles == {None, Some(<< >>), Some(<<120, NL>>)} \cup {Some(src) : src \in CliCartSources}

\* the actions the listeners send: Action::from(UserCommand) and
\* Action::UpdateLogPanel
SentKinds == {"UpdateLogPanel", "ClearLogPanel", "CompileCartridge", "AnalyzeCartridge", "Quit"}

InitCli ==
    /\ disk \in CliFiles
    /\ disk0 = disk
    /\ running_state = "Running"
    /\ current_action = None
    /\ invoked = << >>
    /\ log_panel_store = LogPanelStore_default
    /\ received = 0
    /\ lpc = "top"
    /\ IdleScan /\ IdleTabs /\ IdleCart /\ IdleVersion /\ IdleSlicer /\ IdleFifo
    /\ IdleClass /\ IdleCursor /\ IdleCompile

otherVars == <<scanVars, tabVars, cartVars, verVars, sliceVars, fifoVars, classVars,
               cursorVars, compVars>>

\* the loop test without the test of running_state
LoopTest_ignoring_done ==
    /\ lpc = "top"
    /\ \E draw_ok \in BOOLEAN :
          lpc' = IF ~draw_ok THEN "exit" ELSE "recv"
    /\ UNCHANGED <<disk, disk0, running_state, current_action, invoked, log_panel_store,
                   received, otherVars>>

\* `while !matches!(model.running_state, RunningState::Done)` and
\* `terminal.draw(..)?`
LoopTest ==
    /\ lpc = "top"
    /\ \E draw_ok \in BOOLEAN :
          lpc' = IF running_state = "Done" \/ ~draw_ok THEN "exit" ELSE "recv"
    /\ UNCHANGED <<disk, disk0, running_state, current_action, invoked, log_panel_store,
                   received, otherVars>>

\* action_rx.try_recv() is Ok(val)
TryRecvOk(kind) ==
    /\ lpc = "recv"
    /\ received < MaxReceived
    /\ current_action' = Some([kind |-> kind, cartridge_data |-> None])
    /\ received' = received + 1
    /\ invoked' = << >>
    /\ disk0' = disk
    /\ lpc' = "chain"
    /\ UNCHANGED <<disk, running_state, log_panel_store, otherVars>>

\* action_rx.try_recv() is Err(Empty): no action, the inner loop is skipped
TryRecvEmpty ==
    /\ lpc = "recv"
    /\ current_action' = None
    /\ lpc' = "top"
    /\ UNCHANGED <<disk, disk0, running_state, invoked, log_panel_store, received, otherVars>>

\* action_rx.try_recv() is Err(Disconnected): break
TryRecvDisconnected ==
    /\ lpc = "recv"
    /\ current_action' = None
    /\ lpc' = "exit"
    /\ UNCHANGED <<disk, disk0, running_state, invoked, log_panel_store, received, otherVars>>

\* the action in hand is of `kind`, and invoke runs on it
Invoking(kind) ==
    /\ lpc = "chain"
    /\ IsSome(current_action)
    /\ current_action[1].kind = kind
    /\ invoked' = Append(invoked, kind)

\* invoke returned `next`: the inner loop goes on while it is Some
Returned(next) ==
    /\ current_action' = next
    /\ lpc' = IF IsSome(next) THEN "chain" ELSE "top"

\* Action::ClearLogPanel
InvokeClearLogPanel ==
    /\ Invoking("ClearLogPanel")
    /\ log_panel_store' = LogPanelStore_clear(log_panel_store)
    /\ Returned(None)
    /\ UNCHANGED <<disk, disk0, running_state, received, otherVars>>

\* Action::UpdateLogPanel(log_event)
InvokeUpdateLogPanel ==
    /\ Invoking("UpdateLogPanel")
    /\ log_panel_store' = LogPanelStore_update(log_panel_store)
    /\ Returned(None)
    /\ UNCHANGED <<disk, disk0, running_state, received, otherVars>>

\* Action::CompileCartridge when get_lua_files is an Err
InvokeCompileNoSources ==
    /\ Invoking("CompileCartridge")
    /\ Returned(None)
    /\ UNCHANGED <<disk, disk0, running_state, log_panel_store, received, otherVars>>

\* Action::CompileCartridge when get_lua_files is Ok: the cartridge file is
\* loaded, then compile_cartridge runs on it and the loaded source files
InvokeCompileCartridge ==
    /\ Invoking("CompileCartridge")
    /\ \E files \in SeqsUpTo(LoadedSources, MaxSources),
          open_ok \in BOOLEAN,
          from_file \in {None} \cup {Some(c) : c \in CliCarts},
          fallback \in {None} \cup {Some(c) : c \in CliCarts} :
          LET l == FileData_into_loaded_or_default(FileData_new, disk, open_ok,
                                                   from_file, fallback)
          IN  /\ disk' = l.file
              /\ IF IsNone(l.ret)
                 THEN Returned(None)
                 ELSE IF compile_cartridge(l.ret[1], files).status = "ok"
                 THEN Returned(Some([kind |-> "SaveCompiledCartridge",
                                     cartridge_data |->
                                         compile_cartridge(l.ret[1], files).cart]))
                 ELSE current_action' = None /\ lpc' = "panic"
    /\ UNCHANGED <<disk0, running_state, log_panel_store, received, otherVars>>

\* Action::SaveCompiledCartridge { cartridge_data }
InvokeSaveCompiledCartridge ==
    /\ Invoking("SaveCompiledCartridge")
    /\ \E open_ok \in BOOLEAN,
          written \in {0, Len(into_cart_source(current_action[1].cartridge_data[1]))} :
          disk' = save_to_file(disk, into_cart_source(current_action[1].cartridge_data[1]),
                               open_ok, written)
    /\ Returned(None)
    /\ UNCHANGED <<disk0, running_state, log_panel_store, received, otherVars>>

\* Action::AnalyzeCartridge
InvokeAnalyzeCartridge ==
    /\ Invoking("AnalyzeCartridge")
    /\ Returned(None)
    /\ UNCHANGED <<disk, disk0, running_state, log_panel_store, received, otherVars>>

\* Action::Quit
InvokeQuit ==
    /\ Invoking("Quit")
    /\ running_state' = "Done"
    /\ Returned(None)
    /\ UNCHANGED <<disk, disk0, log_panel_store, received, otherVars>>

NextCli ==
    \/ LoopTest
    \/ \E kind \in SentKinds : TryRecvOk(kind)
    \/ TryRecvEmpty
    \/ TryRecvDisconnected
    \/ InvokeClearLogPanel
    \/ InvokeUpdateLogPanel
    \/ InvokeCompileNoSources
    \/ InvokeCompileCartridge
    \/ InvokeSaveCompiledCartridge
    \/ InvokeAnalyzeCartridge
    \/ InvokeQuit

SpecCli == InitCli /\ [][NextCli]_vars

----------------------------------------------------------------------------
(* The cartridge compilers, called on their own.                           *)

\* the most source files handed to a compiler
MaxCompileSources == 3

\* the source files: the loaded ones and one that is not loaded
SourceFiles ==
    LoadedSources \cup {[loaded |-> FALSE, name |-> <<99>>, data |-> <<122, NL>>]}

InitCompile ==
    /\ project_file \in {FileData_new} \cup {[loaded |-> TRUE, data |-> c] : c \in CliCarts}
    /\ lua_files \in SeqsUpTo(SourceFiles, MaxCompileSources)
    /\ compile_out = [compile |-> None, merge |-> None, build |-> None]
    /\ IdleScan /\ IdleTabs /\ IdleCart /\ IdleVersion /\ IdleSlicer /\ IdleFifo
    /\ IdleClass /\ IdleCursor /\ IdleCli

\* the value of CartData::from_file_or_default on the cartridge's path: the
\* cartridge when there is one to be had
LoadedCart == IF project_file.loaded THEN Some(project_file.data) ELSE None

\* compile_cartridge(project_file, lua_files)
CallCompileCartridge ==
    /\ IsNone(compile_out.compile)
    /\ compile_out' = [compile_out EXCEPT
                          !.compile = Some(compile_cartridge(project_file, lua_files))]
    /\ UNCHANGED <<project_file, lua_files, scanVars, tabVars, cartVars, verVars, sliceVars,
                   fifoVars, classVars, cursorVars, cliVars>>

\* merge_tabs_with_src(path, tabs) on the tabs of the source files
CallMergeTabs ==
    /\ IsNone(compile_out.merge)
    /\ compile_out' = [compile_out EXCEPT
                          !.merge = Some(merge_tabs_with_src(LoadedCart,
                                             CartBuilder_get_tabs(lua_files)))]
    /\ UNCHANGED <<project_file, lua_files, scanVars, tabVars, cartVars, verVars, sliceVars,
                   fifoVars, classVars, cursorVars, cliVars>>

\* CartBuilder::build(src_file), with get_lua_files an Ok or an Err
CallBuild ==
    /\ IsNone(compile_out.build)
    /\ \E dir_ok \in BOOLEAN :
          compile_out' = [compile_out EXCEPT
                             !.build = Some(CartBuilder_build(
                                 IF dir_ok THEN Some(lua_files) ELSE None, LoadedCart))]
    /\ UNCHANGED <<project_file, lua_files, scanVars, tabVars, cartVars, verVars, sliceVars,
                   fifoVars, classVars, cursorVars, cliVars>>

NextCompile == CallCompileCartridge \/ CallMergeTabs \/ CallBuild

SpecCompile == InitCompile /\ [][NextCompile]_vars

----------------------------------------------------------------------------
(* Claims about the scanners.                                              *)

\* the number of positions of src that hold `byte`
CountByte(src, byte) == Cardinality({i \in 1..Len(src) : src[i] = byte})

RECURSIVE Join(_, _)
\* the spans with `sep` put between consecutive ones
Join(spans, sep) ==
    IF Len(spans) = 0 THEN << >>
    ELSE IF Len(spans) = 1 THEN spans[1]
    ELSE spans[1] \o sep \o Join(Tail(spans), sep)

\* C4: NewlineIter never yields an empty line, and once driven to completion
\* on buffer b its lines concatenate to b, every line but possibly the last
\* ends with the newline byte, and their number is the number of newline
\* bytes of b, plus one iff b is non-empty and does not end with a newline.
C4_LineScanner ==
    /\ \A i \in 1..Len(yielded) : yielded[i] # << >>
    /\ ipc = "done" =>
          /\ Concat(yielded) = buf
          /\ \A i \in 1..(Len(yielded) - 1) : yielded[i][Len(yielded[i])] = NL
          /\ Len(yielded) = CountByte(buf, NL)
                + (IF buf # << >> /\ buf[Len(buf)] # NL THEN 1 ELSE 0)

\* a buffer of two terminated lines and an unterminated third, scanned to the end
C4_Witness ==
    /\ ipc = "done"
    /\ Len(yielded) = 3
    /\ buf[Len(buf)] # NL

\* every occurrence of the separator in b is directly followed by a newline
SeparatorsEndLine(b) ==
    \A i \in 0..(Len(b) - Len(TAB_SEQUENCE)) :
        SubSeq(b, i + 1, i + Len(TAB_SEQUENCE)) = TAB_SEQUENCE =>
            (i + Len(TAB_SEQUENCE) < Len(b) /\ b[i + Len(TAB_SEQUENCE) + 1] = NL)

\* C5 as stated: the spans of TabIter driven to completion on b, with the
\* 4-byte separator put back between consecutive spans, are b.
C5_Original ==
    ipc = "done" => Join(yielded, TAB_SEQUENCE) = buf

\* C5 amended: on a buffer b in which every occurrence of the separator is
\* directly followed by a newline byte, TabIter runs to completion, and its
\* spans with the separator and that newline (5 bytes) put back between
\* consecutive spans are b.
C5_TabScanner ==
    SeparatorsEndLine(buf) =>
        /\ ipc # "panic"
        /\ ipc = "done" => Join(yielded, TAB_SEQUENCE \o <<NL>>) = buf

\* two separator lines consumed, around a non-empty span
C5_Witness ==
    /\ ipc = "done"
    /\ SeparatorsEndLine(buf)
    /\ Len(yielded) = 3
    /\ \E i \in 1..3 : yielded[i] # << >>

----------------------------------------------------------------------------
(* Claims about the tab array builders.                                    *)

RECURSIVE CountSeparators(_)
\* the occurrences of the separator in b, counted from the left
CountSeparators(b) ==
    IF Len(b) < Len(TAB_SEQUENCE) THEN 0
    ELSE IF starts_with(b, TAB_SEQUENCE)
    THEN 1 + CountSeparators(SubSeq(b, Len(TAB_SEQUENCE) + 1, Len(b)))
    ELSE CountSeparators(Tail(b))

\* C8: when more than 16 tabs are offered to the 16-slot array (a Lua section
\* of 16 or more separators given to get_code_tabs_from_lua_section, more
\* than 16 tabs given to compile_tabs) the call completes, slots 0..15 hold
\* the first 16 tabs in order and the excess is dropped.
C8_TabCeiling ==
    /\ (IsSome(tabs_call.split)
          /\ CountSeparators(lua_section) >= P8_MAX_CODE_EDITOR_TAB_COUNT) =>
            /\ ~tabs_call.split[1].panic
            /\ \A i \in 1..P8_MAX_CODE_EDITOR_TAB_COUNT : IsSome(tabs_call.split[1].tabs[i])
            /\ starts_with(lua_section,
                   Join([i \in 1..P8_MAX_CODE_EDITOR_TAB_COUNT |->
                            tabs_call.split[1].tabs[i][1].code_data],
                        TAB_SEQUENCE \o <<NL>>))
    /\ (IsSome(tabs_call.compiled) /\ Len(tab_list) > P8_MAX_CODE_EDITOR_TAB_COUNT) =>
            /\ ~tabs_call.compiled[1].panic
            /\ \A i \in 1..P8_MAX_CODE_EDITOR_TAB_COUNT :
                   tabs_call.compiled[1].tabs[i] = Some(tab_list[i])

----------------------------------------------------------------------------
(* Claims about the header recognizer and short sources.                   *)

\* src holds no line, or one line, terminated or not
FewerThanTwoLines(src) ==
    \/ CountByte(src, NL) = 0
    \/ CountByte(src, NL) = 1 /\ src[Len(src)] = NL

\* C9: on a buffer of fewer than two lines header::split_from returns nothing
\* and from_cart_source returns an error value; neither aborts.
C9_ShortInput ==
    FewerThanTwoLines(cart_src) =>
        /\ IsSome(split_out) => (~split_out[1].panic /\ IsNone(split_out[1].ret))
        /\ pc # "input" => pc = "error"

----------------------------------------------------------------------------
(* Claims about the parser and the serializer.                             *)

\* the bytes of src after the two header lines
body_of(src) == SubSeq(src, Len(ValidHeader) + 1, Len(src))

\* src is the valid header and then section blocks, each introduced by a
\* marker at the start of a line, one of them the Gfx marker
SectionBlocksWithGfx(src) ==
    /\ starts_with(src, ValidHeader)
    /\ body_of(src) # << >>
    /\ IsSome(get_line_type(lines_of(body_of(src))[1]))
    /\ \E i \in 1..Len(lines_of(body_of(src))) :
           get_line_type(lines_of(body_of(src))[i]) = Some("Gfx")

\* Option<section> a and b are both absent or both present with the same bytes
SameLabel(a, b) ==
    /\ IsSome(a) = IsSome(b)
    /\ IsSome(a) => a[1].label_data = b[1].label_data

SameAsset(a, b) ==
    /\ IsSome(a) = IsSome(b)
    /\ IsSome(a) => a[1].asset_data = b[1].asset_data

\* the same header bytes, the same present sections with the same bytes, the
\* same tab contents in the same slots
SameCart(a, b) ==
    /\ a.header = b.header
    /\ SameLabel(a.label, b.label)
    /\ a.gfx.asset_data = b.gfx.asset_data
    /\ SameAsset(a.gff, b.gff)
    /\ SameAsset(a.map, b.map)
    /\ SameAsset(a.sfx, b.sfx)
    /\ SameAsset(a.music, b.music)
    /\ \A i \in 1..P8_MAX_CODE_EDITOR_TAB_COUNT :
           /\ IsSome(a.code_tabs[i]) = IsSome(b.code_tabs[i])
           /\ IsSome(a.code_tabs[i]) =>
                  a.code_tabs[i][1].code_data = b.code_tabs[i][1].code_data

\* C1: when from_cart_source succeeds on a source with cartridge c, then
\* from_cart_source(into_cart_source(c)) succeeds too, with the same header
\* bytes, the same present sections with identical bytes, and the same tab
\* contents in the same slots.
C1_RoundTrip ==
    (pc = "reparsed" /\ cart = first_cart) =>
        /\ reparsed[1].status = "ok"
        /\ SameCart(first_cart[1], reparsed[1].cart[1])

\* C2: for every cartridge c that into_cart_source accepts, also after
\* set_code_data, s = into_cart_source(c) is accepted by from_cart_source and
\* serializing the re-parsed cartridge gives s again.
C2_FixedPoint ==
    /\ pc = "reparsed" => reparsed[1].status = "ok"
    /\ pc = "done" => out2 = out

\* C3: on a source of the two header lines, a non-empty Lua section of 1 to
\* 16 tabs and a Gfx section that is the only other and the last section,
\* from_cart_source succeeds and into_cart_source of its cartridge is the
\* source byte for byte.
C3_CanonicalRoundTrip ==
    /\ pc \notin {"error", "panic"}
    /\ pc = "serialized" => out = cart_src

\* a canonical source of 16 tabs, one of them not ending with a newline or
\* empty, whose gfx data lacks the final newline, parsed and serialized
C3_Witness ==
    /\ pc = "serialized"
    /\ gen.kind = "canon"
    /\ gen.tabs = P8_MAX_CODE_EDITOR_TAB_COUNT
    /\ gen.odd = 1
    /\ cart_src[Len(cart_src)] # NL

\* C6: on a source of a valid header and section blocks each introduced by a
\* marker at the start of a line, one of them the Gfx marker, from_cart_source
\* succeeds and the cartridge has a gfx section, also when the Gfx section is
\* empty or the last line has no newline.
C6_SectionCompleteness ==
    (pc # "input" /\ gen.kind = "tokens" /\ SectionBlocksWithGfx(cart_src)) =>
        /\ pc \notin {"error", "panic"}
        /\ IsSome(first_cart)

\* a Gfx section is among the sections handed to the builder's fold
GfxFolded(src) ==
    \E i \in 1..Len(get_sections(body_of(src), get_section_delimiters(body_of(src), Some(2)))) :
        get_sections(body_of(src), get_section_delimiters(body_of(src), Some(2)))[i].type = "Gfx"

\* C7: on a source with a valid header from_cart_source returns an error
\* value, not a panic, whenever no Gfx section is folded into the builder,
\* and it returns an error only then: never for a missing Lua, Label, Gff,
\* Map, Sfx or Music section.
C7_GfxOnlyMandatory ==
    (pc # "input" /\ gen.kind = "tokens") =>
        /\ ~GfxFolded(cart_src) => pc = "error"
        /\ pc = "error" => ~GfxFolded(cart_src)

\* an optional section in serialized form: nothing when absent
EmittedIfPresent(type, present, data) ==
    IF present THEN marker_line(type) \o data ELSE << >>

\* the Gfx marker line and data, then Label, Gff, Map, Sfx and Music
SectionsInOrder(c) ==
    marker_line("Gfx") \o c.gfx.asset_data
      \o EmittedIfPresent("Label", IsSome(c.label),
                          IF IsSome(c.label) THEN c.label[1].label_data ELSE << >>)
      \o EmittedIfPresent("Gff", IsSome(c.gff),
                          IF IsSome(c.gff) THEN c.gff[1].asset_data ELSE << >>)
      \o EmittedIfPresent("Map", IsSome(c.map),
                          IF IsSome(c.map) THEN c.map[1].asset_data ELSE << >>)
      \o EmittedIfPresent("Sfx", IsSome(c.sfx),
                          IF IsSome(c.sfx) THEN c.sfx[1].asset_data ELSE << >>)
      \o EmittedIfPresent("Music", IsSome(c.music),
                          IF IsSome(c.music) THEN c.music[1].asset_data ELSE << >>)

\* C10: the output of into_cart_source is the header bytes, then the Lua
\* section if it is emitted, then the Gfx marker line and gfx data, then
\* Label, Gff, Map, Sfx and Music in that order, each emitted (marker line
\* and data) iff present, whatever the order of the sections in the source.
C10_CanonicalOrder ==
    pc = "serialized" =>
        /\ starts_with(out, cart[1].header)
        /\ Len(out) >= Len(cart[1].header) + Len(SectionsInOrder(cart[1]))
        /\ SubSeq(out, Len(out) - Len(SectionsInOrder(cart[1])) + 1, Len(out))
              = SectionsInOrder(cart[1])
        /\ \/ Len(out) = Len(cart[1].header) + Len(SectionsInOrder(cart[1]))
           \/ starts_with(SubSeq(out, Len(cart[1].header) + 1, Len(out)),
                          marker_line("Lua"))

\* a cartridge parsed from a source with Gff before Label before Gfx,
\* serialized
C10_Witness ==
    /\ pc = "serialized"
    /\ cart_src = ValidHeader \o marker_line("Gff") \o marker_line("Label")
                     \o marker_line("Gfx")
    /\ IsSome(cart[1].label)
    /\ IsSome(cart[1].gff)

----------------------------------------------------------------------------
(* Claims about the Lua section of the serializer.                         *)

\* the bytes of `out` between the header and the Gfx marker line
LuaPart == SubSeq(out, Len(cart[1].header) + 1, Len(out) - Len(SectionsInOrder(cart[1])))

RECURSIVE SlotBytes(_, _)
\* the occupied slots from slot i (0-based) on, in ascending order: slot 0's
\* code as it is, a later slot's code after the separator and a newline
SlotBytes(tabs, i) ==
    IF i >= P8_MAX_CODE_EDITOR_TAB_COUNT THEN << >>
    ELSE (IF IsNone(tabs[i + 1]) THEN << >>
          ELSE IF i = 0 THEN tabs[1][1].code_data
          ELSE TAB_SEQUENCE \o <<NL>> \o tabs[i + 1][1].code_data)
         \o SlotBytes(tabs, i + 1)

\* C11 as stated: into_cart_source emits the Lua marker line iff at least one
\* of the 16 slots is occupied, also when every occupied slot holds empty
\* code, and then the occupied slots follow it in ascending order.
C11_Original ==
    pc = "serialized" =>
        /\ starts_with(LuaPart, marker_line("Lua"))
              <=> (\E i \in 1..P8_MAX_CODE_EDITOR_TAB_COUNT : IsSome(cart[1].code_tabs[i]))
        /\ starts_with(LuaPart, marker_line("Lua")) =>
              LuaPart = marker_line("Lua") \o SlotBytes(cart[1].code_tabs, 0)

\* C11 amended: into_cart_source emits the Lua marker line iff the occupied
\* slots contribute at least one byte (slot 0's code as it is, every later
\* occupied slot the separator, a newline and its code; absent slots
\* nothing); when emitted it is followed by exactly these bytes, and
\* otherwise nothing stands between the header and the Gfx marker line.
C11_LuaEmission ==
    pc = "serialized" =>
        /\ starts_with(LuaPart, marker_line("Lua"))
              <=> SlotBytes(cart[1].code_tabs, 0) # << >>
        /\ LuaPart = IF SlotBytes(cart[1].code_tabs, 0) = << >>
                     THEN << >>
                     ELSE marker_line("Lua") \o SlotBytes(cart[1].code_tabs, 0)

\* a cartridge whose slot 0 is absent and slot 1 occupied, serialized with
\* the Lua marker line
C11_Witness ==
    /\ pc = "serialized"
    /\ IsNone(cart[1].code_tabs[1])
    /\ IsSome(cart[1].code_tabs[2])
    /\ starts_with(LuaPart, marker_line("Lua"))

----------------------------------------------------------------------------
(* Claims about the header split and the version line.                     *)

\* src has at least two lines and the second is valid text
TwoLinesSecondText(src) ==
    /\ Len(lines_of(src)) >= 2
    /\ is_utf8(lines_of(src)[2])

\* the first two lines of src, and the bytes after them
FirstTwoLines(src) == lines_of(src)[1] \o lines_of(src)[2]
AfterTwoLines(src) == SubSeq(src, Len(FirstTwoLines(src)) + 1, Len(src))

\* C12: on every buffer of at least two lines whose second line is valid
\* text, header::split_from returns (header, remainder) with header the
\* first two lines and header followed by remainder the buffer, whatever the
\* bytes of the first line are.
C12_SplitIgnoresSignature ==
    (IsSome(split_out) /\ TwoLinesSecondText(cart_src)) =>
        /\ ~split_out[1].panic
        /\ split_out[1].ret = Some(<<FirstTwoLines(cart_src), AfterTwoLines(cart_src)>>)

\* C13: on every source with the signature line, a second line that is valid
\* text, and a Gfx section, from_cart_source succeeds, whatever the version
\* line says and whether or not diagnostic logging is enabled.
C13_VersionDecoupling ==
    (/\ pc # "input"
     /\ gen.kind = "short"
     /\ TwoLinesSecondText(cart_src)
     /\ lines_of(cart_src)[1] = CARTRIDGE_MARKER
     /\ \E i \in 3..Len(lines_of(cart_src)) :
            starts_with(lines_of(cart_src)[i], marker_line("Gfx")))
        => pc = "parsed"

\* the version line of header_in
version_line == SubSeq(header_in, Len(CARTRIDGE_MARKER) + 1, Len(header_in))

\* the bytes of a version line between "version " and the final newline
version_token(line) == SubSeq(line, Len(VERSION_PREFIX) + 1, Len(line) - 1)

\* line is "version ", decimal digits that fit usize, and a newline
WellFormedVersionLine(line) ==
    /\ starts_with(line, VERSION_PREFIX)
    /\ line[Len(line)] = NL
    /\ version_token(line) # << >>
    /\ \A i \in 1..Len(version_token(line)) : version_token(line)[i] \in 48..57
    /\ \/ Len(version_token(line)) < Len(USIZE_MAX_DIGITS)
       \/ version_token(line) = [i \in 1..Len(USIZE_MAX_DIGITS) |-> USIZE_MAX_DIGITS[i] + 48]

\* the digits of the token's value: the token without leading zeros
TokenValue(line) ==
    strip_zeros([i \in 1..Len(version_token(line)) |-> version_token(line)[i] - 48])

\* C14: for a version line "version ", decimal digits that fit an unsigned
\* integer, newline, parsing the version returns exactly that integer; for
\* every other version line the accessor returns an error value and does not
\* abort.
C14_VersionAccessor ==
    vpc \in {"parsed", "panic"} =>
        /\ vpc = "parsed"
        /\ parse_out[1].ret = IF WellFormedVersionLine(version_line)
                              THEN Some(TokenValue(version_line))
                              ELSE None

----------------------------------------------------------------------------
(* Claims about duplicate sections.                                        *)

\* the lines of the source after the header
body_lines(src) == lines_of(body_of(src))

\* the file line numbers of the lines that start with the marker of `type`
MarkerLineNumbers(src, type) ==
    {2 + i : i \in {j \in 1..Len(body_lines(src)) :
                        starts_with(body_lines(src)[j], type_string(type))}}

SetMax(S) == CHOOSE x \in S : \A y \in S : y <= x
SetMin(S) == CHOOSE x \in S : \A y \in S : x <= y

\* the sections the slicer yields for the source
yielded_sections(src) ==
    get_sections(body_of(src), get_section_delimiters(body_of(src), Some(2)))

\* the data of the section of ys whose marker is on file line ln
YieldedData(ys, ln) ==
    ys[CHOOSE i \in 1..Len(ys) : ys[i].line_number = ln].section_data

\* cartridge c holds, for `type`, the section of ys whose marker is on file
\* line ln, with its line number and data
HoldsOccurrence(c, ys, type, ln) ==
    /\ \E i \in 1..Len(ys) : ys[i].line_number = ln
    /\ CASE type = "Lua" ->
              c.code_tabs = get_code_tabs_from_lua_section(ln, YieldedData(ys, ln)).tabs
         [] type = "Gfx" ->
              c.gfx = [line_number |-> ln, asset_data |-> YieldedData(ys, ln)]
         [] type = "Gff" ->
              c.gff = Some([line_number |-> ln, asset_data |-> YieldedData(ys, ln)])
         [] type = "Map" ->
              c.map = Some([line_number |-> ln, asset_data |-> YieldedData(ys, ln)])
         [] type = "Sfx" ->
              c.sfx = Some([line_number |-> ln, asset_data |-> YieldedData(ys, ln)])
         [] type = "Music" ->
              c.music = Some([line_number |-> ln, asset_data |-> YieldedData(ys, ln)])
         [] type = "Label" ->
              c.label = Some([line_number |-> ln, label_data |-> YieldedData(ys, ln)])

\* two tab arrays hold the same code in the same slots
SameTabs(a, b) ==
    \A i \in 1..P8_MAX_CODE_EDITOR_TAB_COUNT :
        /\ IsSome(a[i]) = IsSome(b[i])
        /\ IsSome(a[i]) => a[i][1].code_data = b[i][1].code_data

\* cartridge c holds, for `type`, the data of the section of ys whose marker
\* is on file line ln
HoldsDataOf(c, ys, type, ln) ==
    /\ \E i \in 1..Len(ys) : ys[i].line_number = ln
    /\ CASE type = "Lua" ->
              SameTabs(c.code_tabs,
                       get_code_tabs_from_lua_section(ln, YieldedData(ys, ln)).tabs)
         [] type = "Gfx" -> c.gfx.asset_data = YieldedData(ys, ln)
         [] type = "Gff" -> IsSome(c.gff) /\ c.gff[1].asset_data = YieldedData(ys, ln)
         [] type = "Map" -> IsSome(c.map) /\ c.map[1].asset_data = YieldedData(ys, ln)
         [] type = "Sfx" -> IsSome(c.sfx) /\ c.sfx[1].asset_data = YieldedData(ys, ln)
         [] type = "Music" -> IsSome(c.music) /\ c.music[1].asset_data = YieldedData(ys, ln)
         [] type = "Label" -> IsSome(c.label) /\ c.label[1].label_data = YieldedData(ys, ln)

\* C15 as stated: the cartridge built by from_cart_source holds, for every
\* section type with marker lines in the source, the data of the occurrence
\* that appears last in the file (for Lua: the tabs of the last Lua section).
C15_Original ==
    (gen.kind = "tokens" /\ pc = "parsed" /\ cart = first_cart) =>
        LET ys == yielded_sections(cart_src)
        IN  \A t \in 1..Len(SECTION_TYPES) :
                MarkerLineNumbers(cart_src, SECTION_TYPES[t]) # {} =>
                    HoldsDataOf(first_cart[1], ys, SECTION_TYPES[t],
                                SetMax(MarkerLineNumbers(cart_src, SECTION_TYPES[t])))

\* C15 amended: the cartridge built by from_cart_source holds, for every
\* section type with marker lines in the source, the occurrence that appears
\* first in the file, with its line number and its data (for Lua: the tabs
\* of the first Lua section).
C15_FirstInFileWins ==
    (gen.kind = "tokens" /\ pc = "parsed" /\ cart = first_cart) =>
        LET ys == yielded_sections(cart_src)
        IN  \A t \in 1..Len(SECTION_TYPES) :
                MarkerLineNumbers(cart_src, SECTION_TYPES[t]) # {} =>
                    HoldsOccurrence(first_cart[1], ys, SECTION_TYPES[t],
                                    SetMin(MarkerLineNumbers(cart_src, SECTION_TYPES[t])))

\* a cartridge parsed from a source with two Gfx sections of different data
C15_Witness ==
    /\ pc = "parsed"
    /\ cart_src = ValidHeader \o marker_line("Gfx") \o <<97, NL>> \o marker_line("Gfx")
    /\ first_cart[1].gfx.asset_data = <<97, NL>>

----------------------------------------------------------------------------
(* Claims about the delimiter scanner and the slicer.                      *)

\* the lines of the buffer given to the delimiter scanner
slice_lines == lines_of(slice_src)

\* the k of line_number_offset = Some(k); nothing counts as 0
slice_k == IF IsSome(slice_offset) THEN slice_offset[1] ELSE 0

\* the 1-based indices of the lines that start with a section marker
MarkerLines ==
    {i \in 1..Len(slice_lines) :
        \E t \in 1..Len(SECTION_TYPES) :
            starts_with(slice_lines[i], type_string(SECTION_TYPES[t]))}

RECURSIVE LengthBefore(_, _)
\* the sum of the lengths of the first n of the lines
LengthBefore(lines, n) ==
    IF n = 0 THEN 0 ELSE Len(lines[n]) + LengthBefore(lines, n - 1)

doc_delims == sort_delimiters(delims_out[1])

\* the byte range computed for the j-th delimiter of the document: from past
\* the marker and one more byte, to the next delimiter or the end of buffer
RangeStart(j) == doc_delims[j].byte_offset + Len(type_string(doc_delims[j].type)) + 1
RangeEnd(j) ==
    IF j = Len(doc_delims) THEN Len(slice_src) ELSE doc_delims[j + 1].byte_offset
RangeInBuffer(j) == RangeStart(j) <= RangeEnd(j) /\ RangeEnd(j) <= Len(slice_src)

\* the sections yielded for the delimiter on line ln
SectionsOfLine(ln) ==
    {i \in 1..Len(sections_out[1]) : sections_out[1][i].line_number = ln}

\* C16: when the byte range computed for one delimiter falls outside the
\* buffer, get_sections omits the section of that delimiter only: every
\* delimiter whose range is inside the buffer yields its section, with the
\* data of that range.
C16_DropsOnlyOne ==
    IsSome(sections_out) =>
        \A j \in 1..Len(doc_delims) :
            IF RangeInBuffer(j)
            THEN \E i \in SectionsOfLine(doc_delims[j].line_number) :
                     /\ sections_out[1][i].type = doc_delims[j].type
                     /\ sections_out[1][i].section_data
                           = SubSeq(slice_src, RangeStart(j) + 1, RangeEnd(j))
            ELSE SectionsOfLine(doc_delims[j].line_number) = {}

\* the offset of the first byte after the marker line of the j-th delimiter
AfterMarkerLine(j) ==
    LengthBefore(slice_lines, doc_delims[j].line_number - slice_k)

\* C17: the data of every section yielded by get_sections starts at the
\* first byte after its own marker line's newline and ends at the first byte
\* of the next marker line, or at the end of buffer for the last section, so
\* that it holds no byte of a marker line and the data of different sections
\* do not overlap; also for marker lines with bytes after the marker.
C17_DataBounds ==
    IsSome(sections_out) =>
        \A i \in 1..Len(sections_out[1]) :
            \E j \in 1..Len(doc_delims) :
                /\ doc_delims[j].line_number = sections_out[1][i].line_number
                /\ AfterMarkerLine(j) <= RangeEnd(j)
                /\ sections_out[1][i].section_data
                      = SubSeq(slice_src, AfterMarkerLine(j) + 1, RangeEnd(j))

\* C20 as stated: the sections reach the fold in forward document order, in
\* ascending line_number of their marker lines.
C20_Original ==
    IsSome(sections_out) =>
        \A i \in 1..(Len(sections_out[1]) - 1) :
            sections_out[1][i].line_number < sections_out[1][i + 1].line_number

\* C20 amended: the sections reach the fold in reverse document order, in
\* descending line_number of their marker lines: the section of the last
\* marker line first.
C20_ReverseOrder ==
    IsSome(sections_out) =>
        \A i \in 1..(Len(sections_out[1]) - 1) :
            sections_out[1][i].line_number > sections_out[1][i + 1].line_number

\* three sections handed to the fold, the one of the last marker line first
C20_Witness ==
    /\ IsSome(sections_out)
    /\ Len(sections_out[1]) = 3
    /\ sections_out[1][1].line_number = slice_k + 3
    /\ sections_out[1][3].line_number = slice_k + 1

----------------------------------------------------------------------------
(* Claims about the Fifo.                                                  *)

\* the last n elements of s
LastN(s, n) == SubSeq(s, Len(s) - n + 1, Len(s))

\* C18: for a Fifo built from n >= 1 elements, after any sequence of
\* overwrite calls iter() yields exactly n elements in age order, oldest
\* first and the most recently written value last: the last n values of the
\* initial contents followed by the written values.
C18_FifoOrder ==
    IsSome(fifo_iter) =>
        /\ Len(fifo_iter[1]) = Len(fifo_init)
        /\ fifo_iter[1] = LastN(fifo_init \o fifo_written, Len(fifo_init))
        /\ fifo_written # << >> =>
              fifo_iter[1][Len(fifo_iter[1])] = fifo_written[Len(fifo_written)]

\* a Fifo of 3 elements iterated after 4 writes, past the wrap of the cursor,
\* with both values among the elements
C18_Witness ==
    /\ IsSome(fifo_iter)
    /\ Len(fifo_init) = 3
    /\ Len(fifo_written) = 4
    /\ fifo_iter[1][1] # fifo_iter[1][3]


----------------------------------------------------------------------------
(* Claims about the line numbers of the tabs.                              *)

\* the bytes of the Lua section in front of the tab in slot i - 1: the
\* earlier tabs, each followed by its separator line
BytesBeforeTab(tabs, i) ==
    Concat([k \in 1..(i - 1) |-> tabs[k][1].code_data \o TAB_SEQUENCE \o <<NL>>])

\* the 1-based file line on which the tab in slot i - 1 starts, for a Lua
\* section whose marker is on line L
TabFirstLine(L, tabs, i) == L + 1 + CountByte(BytesBeforeTab(tabs, i), NL)

\* C21: for a Lua section whose marker is on line 2, every occupied slot
\* records the file line on which its tab starts: line 3 for slot 0, and for
\* a later slot the line directly after its separator line.
C21_TabLineNumbers ==
    (IsSome(tabs_call.split) /\ ~tabs_call.split[1].panic) =>
        \A i \in 1..P8_MAX_CODE_EDITOR_TAB_COUNT :
            IsSome(tabs_call.split[1].tabs[i]) =>
                tabs_call.split[1].tabs[i][1].line_number
                    = TabFirstLine(2, tabs_call.split[1].tabs, i)


----------------------------------------------------------------------------
(* Claims about the line classifier.                                       *)

\* the positions in SECTION_TYPES of the types whose marker is a byte prefix
\* of the line
MatchingTypes(line) ==
    {t \in 1..Len(SECTION_TYPES) : starts_with(line, type_string(SECTION_TYPES[t]))}

\* no marker is a byte prefix of another marker
MarkersNonPrefixing ==
    \A t, u \in 1..Len(SECTION_TYPES) :
        t # u => ~starts_with(type_string(SECTION_TYPES[t]), type_string(SECTION_TYPES[u]))

\* C22: get_line_type returns the first type, in the order Lua, Gfx, Gff,
\* Label, Map, Sfx, Music, whose marker is a byte prefix of the line, and
\* nothing when none is; no marker is a prefix of another and at most one
\* marker is a prefix of the line, so the type returned is the only match.
C22_LineClassifier ==
    /\ SECTION_TYPES = <<"Lua", "Gfx", "Gff", "Label", "Map", "Sfx", "Music">>
    /\ MarkersNonPrefixing
    /\ IsSome(line_type_out) =>
        /\ Cardinality(MatchingTypes(line_in)) <= 1
        /\ MatchingTypes(line_in) = {} => line_type_out[1] = None
        /\ MatchingTypes(line_in) # {} =>
              /\ line_type_out[1] = Some(SECTION_TYPES[SetMin(MatchingTypes(line_in))])
              /\ \A t \in MatchingTypes(line_in) : line_type_out[1] = Some(SECTION_TYPES[t])

\* the classifier has answered for the line "__lua__" followed by "__label__"
C22_Witness ==
    /\ line_in = type_string("Lua") \o type_string("Label")
    /\ line_type_out = Some(Some("Lua"))


----------------------------------------------------------------------------
(* Claims about the span count of the tab scanner.                         *)

RECURSIVE ConsumedSeparators(_)
\* the separator occurrences a scan of b from the left passes over, each
\* taken with the byte that follows it
ConsumedSeparators(b) ==
    IF Len(b) < Len(TAB_SEQUENCE) THEN 0
    ELSE IF starts_with(b, TAB_SEQUENCE)
    THEN 1 + ConsumedSeparators(SubSeq(b, Len(TAB_SEQUENCE) + 2, Len(b)))
    ELSE ConsumedSeparators(Tail(b))

\* C23: on every buffer, the empty one and one that ends with the separator
\* bytes included, TabIter never aborts, and once driven to completion it has
\* yielded one more span than the separator occurrences it consumed; with no
\* occurrence it has yielded the whole buffer as its single span.
C23_TabScannerSpans ==
    /\ ipc # "panic"
    /\ ipc = "done" =>
        /\ Len(yielded) = ConsumedSeparators(buf) + 1
        /\ CountSeparators(buf) = 0 => yielded = <<buf>>


----------------------------------------------------------------------------
(* Claims about set_code_data.                                             *)

\* cartridges a and b have the same header and the same label, gfx, gff,
\* map, sfx and music sections
SameOutsideTabs(a, b) ==
    /\ a.header = b.header
    /\ a.label = b.label
    /\ a.gfx = b.gfx
    /\ a.gff = b.gff
    /\ a.map = b.map
    /\ a.sfx = b.sfx
    /\ a.music = b.music

\* C24: a step of set_code_data(t) leaves all 16 tab slots equal to t, slots
\* absent in t absent even if occupied before, and leaves the header and the
\* label, gfx, gff, map, sfx and music sections as they were.
C24_SetCodeDataFrame ==
    [][\A t \in NewCodeTabs :
          SetCodeData(t) =>
              /\ \A i \in 1..P8_MAX_CODE_EDITOR_TAB_COUNT : cart'[1].code_tabs[i] = t[i]
              /\ SameOutsideTabs(cart'[1], cart[1])]_vars

\* set_code_data has emptied a slot that the parsed cartridge had occupied,
\* on a cartridge with an optional section
C24_Witness ==
    /\ pc = "parsed"
    /\ \E i \in 1..P8_MAX_CODE_EDITOR_TAB_COUNT :
           IsSome(first_cart[1].code_tabs[i]) /\ IsNone(cart[1].code_tabs[i])
    /\ IsSome(cart[1].gff)
    /\ SameOutsideTabs(cart[1], first_cart[1])


----------------------------------------------------------------------------
(* Claims about the Fifo's cursor.                                         *)

\* C25: after any sequence of overwrite and reset_cursor calls on any Fifo,
\* one built by Default or from an empty collection included, no call has
\* aborted, the cursor is inside the buffer (below len, or 0 when len is 0),
\* len is what it was at construction, and the latest overwrite returned an
\* index below len.
C25_FifoCursorBound ==
    fifo_pc # "idle" =>
        /\ fifo_pc # "abort"
        /\ Len(fifo.inner) = Len(fifo_init)
        /\ IF Len(fifo.inner) = 0 THEN fifo.cursor = 0 ELSE fifo.cursor < Len(fifo.inner)
        /\ IsSome(fifo_ret) => fifo_ret[1] < Len(fifo.inner)


----------------------------------------------------------------------------
(* Claims about the cartridge file.                                        *)

\* C26: when the CompileCartridge action has run on an existing cartridge
\* file and ended without a SaveCompiledCartridge follow-up, the file holds
\* the bytes it held when the action was received; loading the file does
\* not alter it.
C26_FailedCompileKeepsFile ==
    (lpc \in {"top", "exit"} /\ invoked = <<"CompileCartridge">> /\ IsSome(disk0)) =>
        disk = disk0


----------------------------------------------------------------------------
(* Claims about tab slots across a save and a reload.                      *)

\* the array has a gap: an occupied slot above an absent one
HasGap(tabs) ==
    \E i, j \in 1..P8_MAX_CODE_EDITOR_TAB_COUNT :
        j < i /\ IsSome(tabs[i]) /\ IsNone(tabs[j])

\* every occupied slot holds non-empty code that ends in a newline and holds
\* neither the separator nor a line that starts with a marker
PlainTabs(tabs) ==
    \A i \in 1..P8_MAX_CODE_EDITOR_TAB_COUNT :
        IsSome(tabs[i]) =>
            /\ tabs[i][1].code_data # << >>
            /\ tabs[i][1].code_data[Len(tabs[i][1].code_data)] = NL
            /\ CountSeparators(tabs[i][1].code_data) = 0
            /\ \A k \in 1..Len(lines_of(tabs[i][1].code_data)) :
                   IsNone(get_line_type(lines_of(tabs[i][1].code_data)[k]))

RECURSIVE OccupiedCodes(_, _)
\* the codes of the occupied slots from slot i (0-based) on, in ascending order
OccupiedCodes(tabs, i) ==
    IF i >= P8_MAX_CODE_EDITOR_TAB_COUNT THEN << >>
    ELSE (IF IsNone(tabs[i + 1]) THEN << >> ELSE <<tabs[i + 1][1].code_data>>)
         \o OccupiedCodes(tabs, i + 1)

\* the codes a reload finds, slot by slot: an empty tab first when slot 0 was
\* absent, then the codes of the occupied slots
ReloadedCodes(tabs) ==
    (IF IsNone(tabs[1]) THEN << << >> >> ELSE << >>) \o OccupiedCodes(tabs, 0)

\* C27 as stated: for a cartridge whose tab array was set with a gap, parsing
\* the output of into_cart_source returns each tab's code in the slot it had
\* before and occupies no slot that was absent before.
C27_Original ==
    (pc = "reparsed" /\ HasGap(cart[1].code_tabs)) =>
        /\ reparsed[1].status = "ok"
        /\ \A i \in 1..P8_MAX_CODE_EDITOR_TAB_COUNT :
               /\ IsSome(cart[1].code_tabs[i]) = IsSome(reparsed[1].cart[1].code_tabs[i])
               /\ IsSome(cart[1].code_tabs[i]) =>
                      reparsed[1].cart[1].code_tabs[i][1].code_data
                          = cart[1].code_tabs[i][1].code_data

\* data is whole lines, none of which starts with a marker
PlainData(data) ==
    /\ data = << >> \/ data[Len(data)] = NL
    /\ \A k \in 1..Len(lines_of(data)) : IsNone(get_line_type(lines_of(data)[k]))

\* the data of every present section of c other than the code is plain
PlainSections(c) ==
    /\ PlainData(c.gfx.asset_data)
    /\ IsSome(c.label) => PlainData(c.label[1].label_data)
    /\ IsSome(c.gff) => PlainData(c.gff[1].asset_data)
    /\ IsSome(c.map) => PlainData(c.map[1].asset_data)
    /\ IsSome(c.sfx) => PlainData(c.sfx[1].asset_data)
    /\ IsSome(c.music) => PlainData(c.music[1].asset_data)

\* C27 amended: for a cartridge whose tab array was set with a gap, every
\* occupied slot holding non-empty code of whole lines without a separator
\* or a marker line, and every other section holding whole lines without a
\* marker line, parsing the output of into_cart_source succeeds and returns
\* the codes of the occupied slots, in ascending slot order, in consecutive
\* slots: from slot 0 on when slot 0 was occupied, from slot 1 on behind an
\* empty tab in slot 0 when it was absent; every later slot is absent.
C27_GapsCollapse ==
    (pc = "reparsed" /\ HasGap(cart[1].code_tabs) /\ PlainTabs(cart[1].code_tabs)
        /\ PlainSections(cart[1])) =>
        /\ reparsed[1].status = "ok"
        /\ \A i \in 1..P8_MAX_CODE_EDITOR_TAB_COUNT :
               IF i <= Len(ReloadedCodes(cart[1].code_tabs))
               THEN /\ IsSome(reparsed[1].cart[1].code_tabs[i])
                    /\ reparsed[1].cart[1].code_tabs[i][1].code_data
                           = ReloadedCodes(cart[1].code_tabs)[i]
               ELSE IsNone(reparsed[1].cart[1].code_tabs[i])

\* a cartridge with slots 0 and 2 occupied and slot 1 absent, saved and
\* reloaded: the code of slot 2 is back in slot 1
C27_Witness ==
    /\ pc = "reparsed"
    /\ IsSome(cart[1].code_tabs[1]) /\ IsNone(cart[1].code_tabs[2])
    /\ IsSome(cart[1].code_tabs[3])
    /\ PlainTabs(cart[1].code_tabs) /\ PlainSections(cart[1])
    /\ IsSome(cart[1].gff)
    /\ reparsed[1].status = "ok"
    /\ reparsed[1].cart[1].code_tabs[2] # None
    /\ reparsed[1].cart[1].code_tabs[2][1].code_data = cart[1].code_tabs[3][1].code_data


----------------------------------------------------------------------------
(* Claims about the bytes of a parsed source.                              *)

\* the positions of the lines that start with a marker
MarkerPositions(lines) == {j \in 1..Len(lines) : IsSome(get_line_type(lines[j]))}

\* the bytes cartridge c holds for the section of `type`: for Lua its tabs
\* with a separator line in front of every tab but the first
HeldData(c, type) ==
    CASE type = "Lua"   -> SlotBytes(c.code_tabs, 0)
      [] type = "Gfx"   -> c.gfx.asset_data
      [] type = "Gff"   -> IF IsSome(c.gff) THEN c.gff[1].asset_data ELSE << >>
      [] type = "Label" -> IF IsSome(c.label) THEN c.label[1].label_data ELSE << >>
      [] type = "Map"   -> IF IsSome(c.map) THEN c.map[1].asset_data ELSE << >>
      [] type = "Sfx"   -> IF IsSome(c.sfx) THEN c.sfx[1].asset_data ELSE << >>
      [] type = "Music" -> IF IsSome(c.music) THEN c.music[1].asset_data ELSE << >>

\* the lines in front of the first marker line, then every marker line
\* followed by the bytes c holds for its section
AccountedBody(c, lines, first) ==
    Concat([j \in 1..Len(lines) |->
               IF j < first THEN lines[j]
               ELSE IF IsSome(get_line_type(lines[j]))
               THEN lines[j] \o HeldData(c, get_line_type(lines[j])[1])
               ELSE << >>])

\* the source without the lines in front of its first marker line
WithoutPreamble(lines, first) ==
    ValidHeader \o Concat([j \in 1..Len(lines) |-> IF j < first THEN << >> ELSE lines[j]])

\* the bytes in front of the first marker line do not reach the output: the
\* cartridge serializes as the cartridge of the source without them
PreambleDiscarded(c, lines, first) ==
    /\ from_cart_source(WithoutPreamble(lines, first), FALSE).status = "ok"
    /\ into_cart_source(from_cart_source(WithoutPreamble(lines, first), FALSE).cart[1])
           = into_cart_source(c)

\* C28: in a source that parses, the bytes between the header and the first
\* marker line are in no section and not in the output of into_cart_source,
\* and every other byte is in the header, in a marker line, in a tab
\* separator line or in exactly one section or tab of the cartridge.
C28_ByteAccounting ==
    (gen.kind = "tokens" /\ pc = "parsed" /\ cart = first_cart) =>
        /\ PreambleDiscarded(first_cart[1], body_lines(cart_src),
                             SetMin(MarkerPositions(body_lines(cart_src))))
        /\ body_of(cart_src)
               = AccountedBody(first_cart[1], body_lines(cart_src),
                               SetMin(MarkerPositions(body_lines(cart_src))))


----------------------------------------------------------------------------
(* Claims about the cartridge compilers.                                   *)

\* the tab array holds the collected bytes of the source files, file i in
\* slot i - 1, and nothing else
TabsOfSources(tabs, files) ==
    \A i \in 1..P8_MAX_CODE_EDITOR_TAB_COUNT :
        IF i <= Len(files)
        THEN IsSome(tabs[i]) /\ tabs[i][1].code_data = collect_into(files[i])
        ELSE IsNone(tabs[i])

\* result r of a compiler, when it is a cartridge: the loaded cartridge in
\* every field when there is no source file, else the loaded cartridge with
\* the tab array replaced by the tabs of the source files
KeepsOrReplacesTabs(r) ==
    (IsSome(r) /\ r[1].status = "ok") =>
        /\ project_file.loaded
        /\ lua_files = << >> => r[1].cart[1] = project_file.data
        /\ lua_files # << >> =>
              /\ SameOutsideTabs(r[1].cart[1], project_file.data)
              /\ TabsOfSources(r[1].cart[1].code_tabs, lua_files)

\* C29: compile_cartridge, merge_tabs_with_src and CartBuilder::build replace
\* the tab array only when there is a source tab: with no source file the
\* cartridge returned is the loaded cartridge in every field, tabs included,
\* and with source files only the tab array differs.
C29_CompileKeepsCode ==
    /\ KeepsOrReplacesTabs(compile_out.compile)
    /\ KeepsOrReplacesTabs(compile_out.merge)
    /\ KeepsOrReplacesTabs(compile_out.build)

\* the three compilers have returned, without a source file, for a loaded
\* cartridge that has a tab
C29_Witness ==
    /\ lua_files = << >>
    /\ project_file.loaded
    /\ IsSome(project_file.data.code_tabs[1])
    /\ IsSome(compile_out.compile) /\ compile_out.compile[1].status = "ok"
    /\ IsSome(compile_out.merge) /\ compile_out.merge[1].status = "ok"
    /\ IsSome(compile_out.build) /\ compile_out.build[1].status = "ok"
    /\ IsSome(compile_out.compile[1].cart[1].code_tabs[1])


----------------------------------------------------------------------------
(* Claims about the main loop.                                             *)

\* the invocations made for the action received last
ChainIsShort ==
    /\ Len(invoked) <= 2
    /\ Len(invoked) = 2 => invoked = <<"CompileCartridge", "SaveCompiledCartridge">>
    /\ (lpc = "chain" /\ invoked # << >>) =>
          /\ invoked = <<"CompileCartridge">>
          /\ current_action[1].kind = "SaveCompiledCartridge"

\* Quit is among the invocations made for the action received last
QuitInvoked == \E i \in 1..Len(invoked) : invoked[i] = "Quit"

\* C30: a chain of follow-up actions ends after at most two invocations
\* (CompileCartridge, then SaveCompiledCartridge); once Quit has been invoked
\* the running state is Done, the loop receives and invokes no further action
\* and only goes on to its exit, and the state never is Running again.
C30_QuitEndsLoop ==
    /\ [](ChainIsShort)
    /\ [](QuitInvoked => (running_state = "Done" /\ lpc \in {"top", "exit"}))
    /\ [](running_state = "Done" => QuitInvoked)
    /\ [][running_state = "Done" =>
              /\ running_state' = "Done"
              /\ received' = received
              /\ invoked' = invoked
              /\ lpc' = "exit"]_vars

\* Quit was the third action received, and the loop has exited on it
C30_Witness ==
    /\ received = MaxReceived
    /\ invoked = <<"Quit">>
    /\ running_state = "Done"
    /\ lpc = "exit"

====
